---- MODULE Spec2Model ----
(***************************************************************************)
(* A model of the turboxl XLSX -> CSV pipeline: the secure ZIP reader, the *)
(* shared-string table, the cell converter, the CSV row collector, the     *)
(* streaming sheet reader and the orchestrator (readSheetToCsv).           *)
(*                                                                         *)
(* Text is a sequence of one-character strings.  XML parts are sequences   *)
(* of the nodes the libxml2 pull reader delivers, built from small         *)
(* document descriptions.                                                   *)
(***************************************************************************)
EXTENDS Integers, Sequences, FiniteSets, TLC

(***************************************************************************)
(* Bounds of the model.                                                    *)
(***************************************************************************)
\* most <si> elements in a shared-string part
MaxSi == 3
\* rightmost column of a row handed to the collector
MaxCol == 3
\* most cells of such a row
MaxCells == 2
\* largest row number
MaxRowNumber == 2
\* the collector takes another call while its output is shorter than this
MaxOut == 2

(***************************************************************************)
(* Characters and text helpers.                                            *)
(***************************************************************************)
QUOTE == "\""
LF == "\n"
CR == "\r"
NUL == "NUL"

Contains(s, ch) == \E i \in 1..Len(s) : s[i] = ch

RECURSIVE Concat(_)
Concat(ss) == IF ss = <<>> THEN <<>> ELSE Head(ss) \o Concat(Tail(ss))

Max2(a, b) == IF a >= b THEN a ELSE b
Min2(a, b) == IF a <= b THEN a ELSE b

Prefix(s, n) == SubSeq(s, 1, Min2(n, Len(s)))

\* all sequences over S of length at most n
SeqsUpTo(S, n) == UNION {[1..k -> S] : k \in 0..n}

(***************************************************************************)
(* The libxml2 pull reader.  A part is [nodes, fault]: the nodes in the    *)
(* order xmlTextReaderRead delivers them, and fault = k > 0 when the read  *)
(* that would deliver node k meets a fatal parse fault (fault = 0: the     *)
(* part is well formed).  A node is                                        *)
(*   [t |-> "E" (element) | "Z" (end element) | "T" (text),                *)
(*    n |-> name, a |-> attributes <<name, value>>.., x |-> text,          *)
(*    d |-> depth, e |-> self-closing].                                     *)
(* A self-closing element has no end-element node.                         *)
(***************************************************************************)
Node(t, n, a, x, d, e) == [t |-> t, n |-> n, a |-> a, x |-> x, d |-> d, e |-> e]
XElem(n, a, d, kids) ==
    <<Node("E", n, a, <<>>, d, FALSE)>> \o kids \o <<Node("Z", n, <<>>, <<>>, d, FALSE)>>
XEmpty(n, a, d) == <<Node("E", n, a, <<>>, d, TRUE)>>
XText(x, d) == IF x = <<>> THEN <<>> ELSE <<Node("T", "#text", <<>>, x, d, FALSE)>>

\* xmlTextReaderRead from position pos: 1 a node was read, 0 end, -1 fault
xmlTextReaderRead(doc, pos) ==
    IF doc.fault # 0 /\ pos + 1 >= doc.fault THEN -1
    ELSE IF pos + 1 > Len(doc.nodes) THEN 0
    ELSE 1

\* a local variable: body(x) for x the value, which is computed once
WithValue(value, body(_)) == CHOOSE out \in {body(x) : x \in {value}} : TRUE

\* an optional value (std::optional, or a pointer that may be null)
NullOpt == [has |-> FALSE, value |-> <<>>]
Some(v) == [has |-> TRUE, value |-> v]

\* xmlTextReaderGetAttribute: the value, if the attribute is there
RECURSIVE AttrLookup(_, _)
AttrLookup(attrs, name) ==
    IF attrs = <<>> THEN NullOpt
    ELSE IF Head(attrs)[1] = name THEN Some(Head(attrs)[2])
    ELSE AttrLookup(Tail(attrs), name)
xmlTextReaderGetAttribute(node, name) == AttrLookup(node.a, name)

\* xmlTextReaderReadString on the element at pos: the text below it, the
\* reader is not moved
RECURSIVE CollectText(_, _, _)
CollectText(nodes, i, depth) ==
    IF i > Len(nodes) \/ nodes[i].d <= depth THEN <<>>
    ELSE (IF nodes[i].t = "T" THEN nodes[i].x ELSE <<>>) \o CollectText(nodes, i + 1, depth)
getElementText(doc, pos) ==
    IF doc.nodes[pos].e THEN <<>> ELSE CollectText(doc.nodes, pos + 1, doc.nodes[pos].d)

(***************************************************************************)
(* State.                                                                  *)
(*   sstIn   the shared-string part handed to the provider and its config  *)
(*   sst     SharedStringsProvider::Impl                                   *)
(*   sstOut  what the last call on the provider did                        *)
(*   stylesIn the numFmtId of each <xf> of xl/styles.xml                   *)
(*   stylesReg StylesRegistry::Impl                                         *)
(*   csv     CsvRowCollectorImpl                                           *)
(*   csvLast the last call on the collector: the row handed over, the      *)
(*           output before it and the fields it emitted                    *)
(***************************************************************************)
VARIABLES sstIn, sst, sstOut, stylesIn, stylesReg, csv, csvLast,
          sheetIn, sheetOut, zipIn, zip, zipOut, convIn, convOut,
          gmtimeTm, threads, tmpFiles, providers, life, pkg

sstVars == <<sstIn, sst, sstOut>>
csvVars == <<stylesIn, stylesReg, csv, csvLast>>
sheetVars == <<sheetIn, sheetOut>>
zipVars == <<zipIn, zip, zipOut>>
convVars == <<convIn, convOut>>
threadVars == <<gmtimeTm, threads>>
spillVars == <<tmpFiles, providers>>
lifeVars == <<life>>
pkgVars == <<pkg>>
worldVars == <<threadVars, spillVars, lifeVars, pkgVars>>
vars == <<sstVars, csvVars, sheetVars, zipVars, convVars, worldVars>>

(***************************************************************************)
(* Shared-string table (SharedStringsProvider::Impl).                      *)
(***************************************************************************)
INITIAL_ARENA_SIZE == 8388608
EstimatedBytesPerString == 50

\* a byte of the spill file that is not a character: the value k
ByteOf(k) == "#" \o ToString(k)
ByteVal(b) == IF \E k \in 0..255 : ByteOf(k) = b THEN CHOOSE k \in 0..255 : ByteOf(k) = b ELSE 1
\* uint32 little-endian, as storeStringToDisk writes the length
U32Bytes(n) ==
    <<ByteOf(n % 256), ByteOf((n \div 256) % 256),
      ByteOf((n \div 65536) % 256), ByteOf((n \div 16777216) % 256)>>
U32Value(b) ==
    ByteVal(b[1]) + 256 * ByteVal(b[2]) + 65536 * ByteVal(b[3]) + 16777216 * ByteVal(b[4])

SstFresh(config) ==
    [m_config |-> config, m_isOpen |-> FALSE, m_activeMode |-> config.mode,
     m_stringCount |-> 0, m_memoryUsage |-> 0,
     m_arena |-> <<>>, m_offsets |-> <<>>, m_arenaCapacity |-> 0, arenaCap |-> 0,
     m_isUsingDisk |-> FALSE, m_diskFilePath |-> "",
     m_diskOffsets |-> <<>>,
     \* m_diskFile: the stream (is_open, failbit) and the file it writes
     streamOpen |-> FALSE, streamFail |-> FALSE, fileBytes |-> <<>>,
     \* the spill file exists in the temp directory
     fileExists |-> FALSE]

\* resize a vector so that index (0-based) is valid, filling with fill
ResizeFor(v, index, fill) ==
    IF index >= Len(v) THEN v \o [k \in 1..(index + 1 - Len(v)) |-> fill] ELSE v

storeStringToArena(p, index, value) ==
    LET needed == Len(value) + 1
        grow == Len(p.m_arena) + needed > p.arenaCap
        newCapacity == Max2(p.arenaCap * 2, Len(p.m_arena) + needed)
        offset == Len(p.m_arena)
        offs == ResizeFor(p.m_offsets, index, 0)
    IN [p EXCEPT !.arenaCap = IF grow THEN newCapacity ELSE @,
                 !.m_arenaCapacity = IF grow THEN newCapacity ELSE @,
                 !.m_offsets = [offs EXCEPT ![index + 1] = offset],
                 !.m_arena = @ \o value \o <<NUL>>,
                 !.m_memoryUsage = @ + needed]

storeStringToDisk(p, index, value) ==
    LET length == Len(value)
        written == IF p.streamFail THEN p.fileBytes
                   ELSE p.fileBytes \o U32Bytes(length) \o Prefix(value, length)
        tellp == IF p.streamFail THEN -1 ELSE Len(written)
        offs == ResizeFor(p.m_diskOffsets, index, 0)
    IN [p EXCEPT !.fileBytes = written,
                 !.m_diskOffsets = [offs EXCEPT ![index + 1] = tellp - (4 + length)]]

storeString(p, index, value) ==
    IF p.m_isUsingDisk THEN storeStringToDisk(p, index, value)
    ELSE storeStringToArena(p, index, value)

\* the C string that starts at arena index i (1-based)
RECURSIVE CStringAt(_, _)
CStringAt(arena, i) ==
    IF i > Len(arena) \/ arena[i] = NUL THEN <<>>
    ELSE <<arena[i]>> \o CStringAt(arena, i + 1)

getStringFromArena(p, index) ==
    IF index >= Len(p.m_offsets) THEN NullOpt
    ELSE LET offset == p.m_offsets[index + 1]
         IN IF offset >= Len(p.m_arena) THEN NullOpt
            ELSE Some(CStringAt(p.m_arena, offset + 1))

readStringFromDisk(p, index) ==
    IF ~p.m_isUsingDisk \/ index >= Len(p.m_diskOffsets) THEN NullOpt
    ELSE LET off == p.m_diskOffsets[index + 1]
             seekOk == ~p.streamFail /\ off >= 0
         IN IF ~seekOk \/ off + 4 > Len(p.fileBytes) THEN NullOpt
            ELSE LET length == U32Value(SubSeq(p.fileBytes, off + 1, off + 4))
                 IN IF off + 4 + length > Len(p.fileBytes) THEN NullOpt
                    ELSE Some(SubSeq(p.fileBytes, off + 5, off + 4 + length))

tryGetString(p, index) ==
    IF ~p.m_isOpen \/ index >= p.m_stringCount THEN NullOpt
    ELSE IF p.m_stringCount = 0 THEN NullOpt
    ELSE IF p.m_isUsingDisk THEN readStringFromDisk(p, index)
    ELSE getStringFromArena(p, index)

getStringCount(p) == p.m_stringCount

\* std::stoull on the count attribute: the leading digits, or a throw that
\* the code swallows (the count stays 0)
DigitVal(c) == CASE c = "0" -> 0 [] c = "1" -> 1 [] c = "2" -> 2 [] c = "3" -> 3
                 [] c = "4" -> 4 [] c = "5" -> 5 [] c = "6" -> 6 [] c = "7" -> 7
                 [] c = "8" -> 8 [] c = "9" -> 9 [] OTHER -> -1
RECURSIVE LeadingNat(_, _)
LeadingNat(s, acc) ==
    IF s = <<>> \/ DigitVal(Head(s)) < 0 THEN acc
    ELSE LeadingNat(Tail(s), 10 * acc + DigitVal(Head(s)))

\* first pass of parseWithReader: [count, estimatedSize]
RECURSIVE FirstPass(_, _, _, _)
FirstPass(doc, pos, count, est) ==
    IF xmlTextReaderRead(doc, pos) # 1 THEN [count |-> count, estimatedSize |-> est]
    ELSE LET node == doc.nodes[pos + 1]
         IN IF node.t = "E" /\ node.n = "sst"
            THEN LET c == xmlTextReaderGetAttribute(node, "count")
                 IN FirstPass(doc, pos + 1,
                              IF c.has /\ c.value # <<>> /\ DigitVal(Head(c.value)) >= 0
                              THEN LeadingNat(c.value, 0) ELSE count,
                              est)
            ELSE IF node.t = "E" /\ node.n = "si"
            THEN FirstPass(doc, pos + 1, IF count = 0 THEN count + 1 ELSE count,
                           est + EstimatedBytesPerString)
            ELSE FirstPass(doc, pos + 1, count, est)

\* initializeDiskStorage: the stream opens (and truncates) the spill file;
\* fstream::open on a stream that is still open fails and sets failbit while
\* is_open() stays true.  canCreate: the temp directory accepts the file.
\* Result: the provider, and whether XlsxError is thrown.
initializeDiskStorage(p, canCreate) ==
    LET q == [p EXCEPT !.m_isUsingDisk = TRUE, !.m_diskFilePath = "spill"]
    IN IF q.streamOpen
       THEN [p |-> [q EXCEPT !.streamFail = TRUE], thrown |-> FALSE]
       ELSE IF canCreate
       THEN [p |-> [q EXCEPT !.streamOpen = TRUE, !.streamFail = FALSE,
                             !.fileBytes = <<>>, !.fileExists = TRUE],
             thrown |-> FALSE]
       ELSE [p |-> [q EXCEPT !.streamFail = TRUE], thrown |-> TRUE]

decideStorageMode(p, estimatedSize, canCreate) ==
    LET toDisk == \/ p.m_config.mode = "External"
                  \/ p.m_config.mode = "Auto" /\ estimatedSize > p.m_config.memoryThreshold
        r == IF toDisk
             THEN initializeDiskStorage([p EXCEPT !.m_activeMode = "External"], canCreate)
             ELSE [p |-> [p EXCEPT !.m_activeMode = "InMemory", !.m_isUsingDisk = FALSE],
                   thrown |-> FALSE]
        q == r.p
        cap == Max2(INITIAL_ARENA_SIZE, estimatedSize * 2)
    IN IF r.thrown THEN r
       ELSE IF ~q.m_isUsingDisk /\ q.m_stringCount > 0
       THEN [p |-> [q EXCEPT !.m_arenaCapacity = cap, !.arenaCap = Max2(@, cap)],
             thrown |-> FALSE]
       ELSE r

\* parseRichTextRun: [text, pos]; the reader ends on the node that closed it
RECURSIVE parseRichTextRun(_, _, _, _)
parseRichTextRun(doc, pos, depth, acc) ==
    IF xmlTextReaderRead(doc, pos) # 1 THEN [text |-> acc, pos |-> pos]
    ELSE LET node == doc.nodes[pos + 1]
         IN IF node.d <= depth THEN [text |-> acc, pos |-> pos + 1]
            ELSE IF node.t = "E" /\ node.n = "t"
            THEN parseRichTextRun(doc, pos + 1, depth, acc \o getElementText(doc, pos + 1))
            ELSE parseRichTextRun(doc, pos + 1, depth, acc)

\* the read loop of parseStringItem: [text, pos]
RECURSIVE StringItemLoop(_, _, _, _, _)
StringItemLoop(doc, pos, depth, flatten, acc) ==
    IF xmlTextReaderRead(doc, pos) # 1 THEN [text |-> acc, pos |-> pos]
    ELSE LET node == doc.nodes[pos + 1]
         IN IF node.d <= depth THEN [text |-> acc, pos |-> pos + 1]
            ELSE IF node.t = "E" /\ node.n = "t"
            THEN StringItemLoop(doc, pos + 1, depth, flatten,
                                acc \o getElementText(doc, pos + 1))
            ELSE IF node.t = "E" /\ node.n = "r" /\ flatten
            THEN LET run == parseRichTextRun(doc, pos + 1, node.d, <<>>)
                 IN StringItemLoop(doc, run.pos, depth, flatten, acc \o run.text)
            ELSE StringItemLoop(doc, pos + 1, depth, flatten, acc)

\* parseStringItem with the reader on the <si> at pos
parseStringItem(doc, pos, config) ==
    LET r == StringItemLoop(doc, pos, doc.nodes[pos].d, config.flattenRichText, <<>>)
    IN [text |-> IF Len(r.text) > config.maxStringLength
                 THEN Prefix(r.text, config.maxStringLength) ELSE r.text,
        pos |-> r.pos]

\* parseStrings: the provider after the second pass
RECURSIVE parseStrings(_, _, _, _)
parseStrings(doc, pos, currentIndex, p) ==
    IF xmlTextReaderRead(doc, pos) # 1 THEN [p EXCEPT !.m_stringCount = currentIndex]
    ELSE LET node == doc.nodes[pos + 1]
         IN IF node.t = "E" /\ node.n = "si"
            THEN LET item == parseStringItem(doc, pos + 1, p.m_config)
                 IN parseStrings(doc, item.pos, currentIndex + 1,
                                 storeString(p, currentIndex, item.text))
            ELSE parseStrings(doc, pos + 1, currentIndex, p)

\* parseWithReader; reader2: xmlReaderForMemory gives the reader of the second
\* pass (it gives none when it cannot allocate one)
parseWithReaderOr(p, doc, canCreate, reader2) ==
    LET first == FirstPass(doc, 0, 0, 0)
        decided == decideStorageMode([p EXCEPT !.m_stringCount = first.count],
                                     first.estimatedSize, canCreate)
    IN IF decided.thrown THEN decided
       ELSE IF ~reader2 THEN [p |-> decided.p, thrown |-> TRUE]
       ELSE [p |-> parseStrings(doc, 0, 0, decided.p), thrown |-> FALSE]

parseWithReader(p, doc, canCreate) == parseWithReaderOr(p, doc, canCreate, TRUE)

\* SharedStringsProvider::Impl::close
SstClosed(p) ==
    [p EXCEPT !.m_isOpen = FALSE, !.m_arena = <<>>, !.m_offsets = <<>>,
              !.m_arenaCapacity = 0, !.m_stringCount = 0, !.m_memoryUsage = 0,
              !.fileExists = IF p.m_isUsingDisk /\ p.m_diskFilePath # "" THEN FALSE ELSE @,
              !.m_diskFilePath = IF p.m_isUsingDisk THEN "" ELSE @,
              !.m_isUsingDisk = FALSE, !.m_activeMode = p.m_config.mode]

\* SharedStringsProvider::Impl::parse; part.present is false when the package
\* has no xl/sharedStrings.xml
SstParsedOr(p, part, canCreate, reader2) ==
    LET q == IF p.m_isOpen THEN SstClosed(p) ELSE p
    IN IF ~part.present
       THEN [p |-> [q EXCEPT !.m_isOpen = TRUE, !.m_stringCount = 0], thrown |-> FALSE]
       ELSE LET r == parseWithReaderOr(q, part, canCreate, reader2)
            IN IF r.thrown THEN r
               ELSE [p |-> [r.p EXCEPT !.m_isOpen = TRUE], thrown |-> FALSE]

SstParsed(p, part, canCreate) == SstParsedOr(p, part, canCreate, TRUE)

(***************************************************************************)
(* Numbers.  A double is held exactly as an integer count of               *)
(* 1/UnitsPerDay: the cell values of the model are multiples of a quarter. *)
(***************************************************************************)
UnitsPerDay == 4

Digit(k) == CASE k = 0 -> "0" [] k = 1 -> "1" [] k = 2 -> "2" [] k = 3 -> "3" [] k = 4 -> "4"
              [] k = 5 -> "5" [] k = 6 -> "6" [] k = 7 -> "7" [] k = 8 -> "8" [] k = 9 -> "9"

RECURSIVE NatText(_)
NatText(n) == IF n < 10 THEN <<Digit(n)>> ELSE NatText(n \div 10) \o <<Digit(n % 10)>>

\* std::to_string(long long)
IntText(n) == IF n < 0 THEN <<"-">> \o NatText(-n) ELSE NatText(n)

\* n written with at least w digits (std::put_time zero padding, %.6f)
RECURSIVE ZeroPad(_, _)
ZeroPad(t, w) == IF Len(t) >= w THEN t ELSE ZeroPad(<<"0">> \o t, w)

RECURSIVE StripTrailingZeros(_)
StripTrailingZeros(t) ==
    IF t # <<>> /\ t[Len(t)] = "0" THEN StripTrailingZeros(SubSeq(t, 1, Len(t) - 1)) ELSE t

\* DataConverter::formatNumericValue for a finite value q / UnitsPerDay
formatNumericValue(q) ==
    IF q % UnitsPerDay = 0 THEN IntText(q \div UnitsPerDay)
    ELSE LET a == IF q < 0 THEN -q ELSE q
             micro == ((a % UnitsPerDay) * 1000000) \div UnitsPerDay
             fixed == (IF q < 0 THEN <<"-">> ELSE <<>>) \o NatText(a \div UnitsPerDay)
                      \o <<".">> \o ZeroPad(NatText(micro), 6)
             stripped == StripTrailingZeros(fixed)
         IN IF stripped[Len(stripped)] = "." THEN SubSeq(stripped, 1, Len(stripped) - 1)
            ELSE stripped

(***************************************************************************)
(* Dates (DateConverter).                                                  *)
(***************************************************************************)
EXCEL_EPOCH_1904 == 1462
DAYS_BETWEEN_1899_AND_1970 == 25567

\* std::gmtime: the civil date of a day count since 1970-01-01
CivilFromDays(z0) ==
    LET z == z0 + 719468
        era == z \div 146097
        doe == z - era * 146097
        yoe == (doe - doe \div 1460 + doe \div 36524 - doe \div 146096) \div 365
        doy == doe - (365 * yoe + yoe \div 4 - yoe \div 100)
        mp == (5 * doy + 2) \div 153
        d == doy - (153 * mp + 2) \div 5 + 1
        mo == IF mp < 10 THEN mp + 3 ELSE mp - 9
        y == yoe + era * 400 + (IF mo <= 2 THEN 1 ELSE 0)
    IN [year |-> y, month |-> mo, day |-> d]

DateText(c) ==
    ZeroPad(NatText(c.year), 4) \o <<"-">> \o ZeroPad(NatText(c.month), 2)
    \o <<"-">> \o ZeroPad(NatText(c.day), 2)

TimeText(h, mi, sec) ==
    ZeroPad(NatText(h), 2) \o <<":">> \o ZeroPad(NatText(mi), 2)
    \o <<":">> \o ZeroPad(NatText(sec), 2)

\* DateConverter::convertExcelSerial; q is the serial in 1/UnitsPerDay
convertExcelSerial(q, dateSystem) ==
    IF q <= 0 THEN <<"1", "9", "0", "0", "-", "0", "1", "-", "0", "1">>
    ELSE LET a1 == IF dateSystem = "Date1904" THEN q + EXCEL_EPOCH_1904 * UnitsPerDay ELSE q
             adjustedSerial ==
                 IF dateSystem = "Date1900" /\ q >= 60 * UnitsPerDay THEN a1 - UnitsPerDay
                 ELSE a1
             daysSinceUnixEpoch == adjustedSerial - DAYS_BETWEEN_1899_AND_1970 * UnitsPerDay
             \* secondsSinceEpoch = days * 86400 is a whole number of seconds;
             \* gmtime takes the day that second lies in
             secondsDay == daysSinceUnixEpoch \div UnitsPerDay
             f == adjustedSerial % UnitsPerDay
             hours == (f * 24) \div UnitsPerDay
             minutes == ((f * 1440) \div UnitsPerDay) % 60
             seconds == ((f * 86400) \div UnitsPerDay) % 60
             hasDatePart == f * 1000 < 999 * UnitsPerDay
             hasTimePart == f * 1000 > UnitsPerDay
             tm == CivilFromDays(secondsDay)
         IN IF hasDatePart /\ hasTimePart
            THEN DateText(tm) \o <<"T">> \o TimeText(hours, minutes, seconds)
            ELSE IF hasTimePart THEN TimeText(hours, minutes, seconds)
            ELSE DateText(tm)

(***************************************************************************)
(* Styles (StylesRegistry::Impl).  The styles parts of the model hold a    *)
(* <cellXfs> section whose <xf> carry a numFmtId.                          *)
(***************************************************************************)
StylesFresh ==
    [m_isOpen |-> FALSE, m_numberFormats |-> <<>>, m_dateTimeStyleMask |-> <<>>]

NumberFormat(formatCode, type) == [formatCode |-> formatCode, type |-> type]

\* std::string::find(sub) != npos, and a search for one of several characters
HasSubstring(s, sub) ==
    \E i \in 1..(Len(s) - Len(sub) + 1) : SubSeq(s, i, i + Len(sub) - 1) = sub
ContainsAny(s, chars) == \E i \in 1..Len(s) : s[i] \in chars

\* the two bytes of the currency sign in UTF-8
CurrencySign == <<"#C2", "#A4">>

\* detectNumberFormatType
detectNumberFormatType(formatCode) ==
    LET hasDatePattern ==
            \/ ContainsAny(formatCode, {"y", "Y"})
            \/ Contains(formatCode, "d")
            \/ (Contains(formatCode, "M")
                /\ ~HasSubstring(formatCode, <<"A", "M", "/", "P", "M">>))
        hasTimePattern ==
            \/ ContainsAny(formatCode, {"h", "H", "s", "S"})
            \/ (Contains(formatCode, "m") /\ ContainsAny(formatCode, {"h", "H", "s", "S"}))
    IN IF formatCode = <<>> \/ formatCode = <<"G", "e", "n", "e", "r", "a", "l">>
       THEN "General"
       ELSE IF hasDatePattern /\ hasTimePattern THEN "DateTime"
       ELSE IF hasDatePattern THEN "Date"
       ELSE IF hasTimePattern THEN "Time"
       ELSE IF Contains(formatCode, "%") THEN "Percentage"
       ELSE IF \/ Contains(formatCode, "$")
               \/ HasSubstring(formatCode, CurrencySign)
               \/ HasSubstring(formatCode, <<"[", "C", "u", "r", "r", "e", "n", "c", "y", "]">>)
       THEN "Currency"
       ELSE IF \E i \in 1..(Len(formatCode) - 1) :
                  formatCode[i] \in {"e", "E"} /\ formatCode[i + 1] \in {"+", "-"}
       THEN "Scientific"
       ELSE IF Contains(formatCode, "/") THEN "Fraction"
       ELSE IF Contains(formatCode, "@") THEN "Text"
       ELSE IF Contains(formatCode, ".") THEN "Decimal"
       ELSE IF ContainsAny(formatCode, {"0", "#"}) THEN "Integer"
       ELSE "Custom"

\* the table of getBuiltInNumberFormat: <<formatId, formatCode, type>>
builtInFormats ==
    <<<<0, <<"G", "e", "n", "e", "r", "a", "l">>, "General">>,
      <<1, <<"0">>, "Integer">>,
      <<2, <<"0", ".", "0", "0">>, "Decimal">>,
      <<3, <<"#", ",", "#", "#", "0">>, "Integer">>,
      <<4, <<"#", ",", "#", "#", "0", ".", "0", "0">>, "Decimal">>,
      <<9, <<"0", "%">>, "Percentage">>,
      <<10, <<"0", ".", "0", "0", "%">>, "Percentage">>,
      <<11, <<"0", ".", "0", "0", "E", "+", "0", "0">>, "Scientific">>,
      <<12, <<"#", " ", "?", "/", "?">>, "Fraction">>,
      <<13, <<"#", " ", "?", "?", "/", "?", "?">>, "Fraction">>,
      <<14, <<"m", "m", "-", "d", "d", "-", "y", "y">>, "Date">>,
      <<15, <<"d", "-", "m", "m", "m", "-", "y", "y">>, "Date">>,
      <<16, <<"d", "-", "m", "m", "m">>, "Date">>,
      <<17, <<"m", "m", "m", "-", "y", "y">>, "Date">>,
      <<18, <<"h", ":", "m", "m", " ", "A", "M", "/", "P", "M">>, "Time">>,
      <<19, <<"h", ":", "m", "m", ":", "s", "s", " ", "A", "M", "/", "P", "M">>, "Time">>,
      <<20, <<"h", ":", "m", "m">>, "Time">>,
      <<21, <<"h", ":", "m", "m", ":", "s", "s">>, "Time">>,
      <<22, <<"m", "/", "d", "/", "y", "y", " ", "h", ":", "m", "m">>, "DateTime">>,
      <<37, <<"#", ",", "#", "#", "0", " ", ";", "(", "#", ",", "#", "#", "0", ")">>, "Currency">>,
      <<38, <<"#", ",", "#", "#", "0", " ", ";", "[", "R", "e", "d", "]", "(", "#", ",", "#", "#", "0", ")">>, "Currency">>,
      <<39, <<"#", ",", "#", "#", "0", ".", "0", "0", ";", "(", "#", ",", "#", "#", "0", ".", "0", "0", ")">>, "Currency">>,
      <<40, <<"#", ",", "#", "#", "0", ".", "0", "0", ";", "[", "R", "e", "d", "]", "(", "#", ",", "#", "#", "0", ".", "0", "0", ")">>, "Currency">>,
      <<49, <<"@">>, "Text">>>>

\* getBuiltInNumberFormat: the format of a built-in format id, if it is one
getBuiltInNumberFormat(formatId) ==
    LET hits == {i \in 1..Len(builtInFormats) : builtInFormats[i][1] = formatId}
    IN IF hits = {} THEN NullOpt
       ELSE LET it == builtInFormats[CHOOSE i \in hits : TRUE]
            IN Some(NumberFormat(it[2], it[3]))

\* m_numberFormats[key] = value on a std::map<int, NumberFormat>
IntMapPut(map, key, value) ==
    [k \in (DOMAIN map) \cup {key} |-> IF k = key THEN value ELSE map[k]]

\* parseNumberFormats with the reader on <numFmts> of the given depth:
\* [reg, pos]
RECURSIVE parseNumberFormats(_, _, _, _)
parseNumberFormats(doc, pos, depth, reg) ==
    IF xmlTextReaderRead(doc, pos) # 1 THEN [reg |-> reg, pos |-> pos]
    ELSE LET node == doc.nodes[pos + 1]
             numFmtId == xmlTextReaderGetAttribute(node, "numFmtId")
             formatCode == xmlTextReaderGetAttribute(node, "formatCode")
         IN IF node.d <= depth /\ node.t = "Z" THEN [reg |-> reg, pos |-> pos + 1]
            ELSE IF node.t = "E" /\ node.n = "numFmt" /\ numFmtId.has /\ formatCode.has
            THEN parseNumberFormats(doc, pos + 1, depth,
                     [reg EXCEPT !.m_numberFormats =
                         IntMapPut(@, LeadingNat(numFmtId.value, 0),
                                   NumberFormat(formatCode.value,
                                                detectNumberFormatType(formatCode.value)))])
            ELSE parseNumberFormats(doc, pos + 1, depth, reg)

\* parseFontElement, parseFillElement and parseBorderElement with the reader
\* on the element of the given depth: the position they leave the reader at
RECURSIVE parseItemElement(_, _, _)
parseItemElement(doc, pos, depth) ==
    IF xmlTextReaderRead(doc, pos) # 1 THEN pos
    ELSE IF doc.nodes[pos + 1].d <= depth /\ doc.nodes[pos + 1].t = "Z" THEN pos + 1
    ELSE parseItemElement(doc, pos + 1, depth)

\* parseFonts, parseFills and parseBorders with the reader on the section of
\* the given depth, item the name of its elements: the position they leave
\* the reader at (the fonts, fills and borders themselves are not kept)
RECURSIVE parseItems(_, _, _, _)
parseItems(doc, pos, depth, item) ==
    IF xmlTextReaderRead(doc, pos) # 1 THEN pos
    ELSE LET node == doc.nodes[pos + 1]
         IN IF node.d <= depth /\ node.t = "Z" THEN pos + 1
            ELSE IF node.t = "E" /\ node.n = item
            THEN parseItems(doc, parseItemElement(doc, pos + 1, node.d), depth, item)
            ELSE parseItems(doc, pos + 1, depth, item)

\* the number format type parseCellXfs gives an <xf numFmtId=..>: the custom
\* format of that id, else the built-in one, else General
XfFormatType(reg, formatId) ==
    LET builtIn == getBuiltInNumberFormat(formatId)
    IN IF formatId \in DOMAIN reg.m_numberFormats THEN reg.m_numberFormats[formatId].type
       ELSE IF builtIn.has THEN builtIn.value.type
       ELSE "General"

\* parseCellXfs with the reader on <cellXfs> of the given depth: [reg, pos];
\* every <xf> yields one entry of the mask, an <xf> without numFmtId that of
\* a default-constructed NumberFormat (General)
RECURSIVE parseCellXfs(_, _, _, _)
parseCellXfs(doc, pos, depth, reg) ==
    IF xmlTextReaderRead(doc, pos) # 1 THEN [reg |-> reg, pos |-> pos]
    ELSE LET node == doc.nodes[pos + 1]
             numFmtId == xmlTextReaderGetAttribute(node, "numFmtId")
         IN IF node.d <= depth /\ node.t = "Z" THEN [reg |-> reg, pos |-> pos + 1]
            ELSE IF node.t = "E" /\ node.n = "xf"
            THEN LET type == IF numFmtId.has
                             THEN XfFormatType(reg, LeadingNat(numFmtId.value, 0))
                             ELSE "General"
                     isDateTime == type \in {"Date", "Time", "DateTime"}
                 IN parseCellXfs(doc, pos + 1, depth,
                        [reg EXCEPT !.m_dateTimeStyleMask =
                                        Append(@, IF isDateTime THEN 1 ELSE 0)])
            ELSE parseCellXfs(doc, pos + 1, depth, reg)

\* parseStylesXml: [reg, thrown]
RECURSIVE parseStylesXml(_, _, _)
parseStylesXml(doc, pos, reg) ==
    LET result == xmlTextReaderRead(doc, pos)
    IN IF result # 1 THEN [reg |-> reg, thrown |-> result < 0]
       ELSE LET node == doc.nodes[pos + 1]
            IN IF node.t = "E" /\ node.n = "numFmts"
               THEN LET r == parseNumberFormats(doc, pos + 1, node.d, reg)
                    IN parseStylesXml(doc, r.pos, r.reg)
               ELSE IF node.t = "E" /\ node.n = "fonts"
               THEN parseStylesXml(doc, parseItems(doc, pos + 1, node.d, "font"), reg)
               ELSE IF node.t = "E" /\ node.n = "fills"
               THEN parseStylesXml(doc, parseItems(doc, pos + 1, node.d, "fill"), reg)
               ELSE IF node.t = "E" /\ node.n = "borders"
               THEN parseStylesXml(doc, parseItems(doc, pos + 1, node.d, "border"), reg)
               ELSE IF node.t = "E" /\ node.n = "cellXfs"
               THEN LET r == parseCellXfs(doc, pos + 1, node.d, reg)
                    IN parseStylesXml(doc, r.pos, r.reg)
               ELSE parseStylesXml(doc, pos + 1, reg)

StylesClosed(reg) ==
    [reg EXCEPT !.m_isOpen = FALSE, !.m_numberFormats = <<>>, !.m_dateTimeStyleMask = <<>>]

\* StylesRegistry::Impl::parse; part.present is false when the package has
\* no xl/styles.xml
StylesParsed(reg, part) ==
    LET q == IF reg.m_isOpen THEN StylesClosed(reg) ELSE reg
    IN IF ~part.present THEN [reg |-> q, thrown |-> TRUE]
       ELSE LET r == parseStylesXml(part, 0, q)
            IN IF r.thrown THEN r
               ELSE [reg |-> [r.reg EXCEPT !.m_isOpen = TRUE], thrown |-> FALSE]

isDateTimeStyle(reg, styleIndex) ==
    IF ~reg.m_isOpen \/ styleIndex < 0 \/ styleIndex >= Len(reg.m_dateTimeStyleMask)
    THEN FALSE
    ELSE reg.m_dateTimeStyleMask[styleIndex + 1] # 0

\* xl/styles.xml with one <xf numFmtId=..> per entry of numFmtIds
StylesDoc(numFmtIds) ==
    [nodes |-> XElem("styleSheet", <<>>, 0,
                     XElem("cellXfs", <<>>, 1,
                           Concat([i \in 1..Len(numFmtIds) |->
                                      XEmpty("xf", <<<<"numFmtId", NatText(numFmtIds[i])>>>>, 2)]))),
     fault |-> 0, present |-> TRUE]

(***************************************************************************)
(* Cells and the cell converter (DataConverter).                           *)
(***************************************************************************)
\* CellValue: Empty | Bool b | Double d | SharedStringIndex i | Text s
VEmpty == [k |-> "Empty", b |-> FALSE, n |-> 0, s |-> <<>>]
VBool(b) == [k |-> "Bool", b |-> b, n |-> 0, s |-> <<>>]
VDouble(q) == [k |-> "Double", b |-> FALSE, n |-> q, s |-> <<>>]
VIndex(i) == [k |-> "Index", b |-> FALSE, n |-> i, s |-> <<>>]
VText(t) == [k |-> "Text", b |-> FALSE, n |-> 0, s |-> t]

CellCoordinate(row, column) == [row |-> row, column |-> column]
CellData(row, column, type, styleIndex, value) ==
    [coordinate |-> CellCoordinate(row, column), type |-> type,
     styleIndex |-> styleIndex, value |-> value]

isEmpty(cell) == cell.value.k = "Empty"
getBoolean(cell) == cell.value.k = "Bool" /\ cell.value.b
getNumber(cell) == IF cell.value.k = "Double" THEN cell.value.n ELSE 0
getString(cell) == IF cell.value.k = "Text" THEN cell.value.s ELSE <<>>
isSharedStringIndex(cell) == cell.value.k = "Index"
getSharedStringIndex(cell) == IF cell.value.k = "Index" THEN cell.value.n ELSE 0

formatErrorValue(errorCode) ==
    IF errorCode = <<>> THEN <<"#", "N", "/", "A">> ELSE errorCode

\* styles: [has, value] the registry the converter is given, if any
convertNumericValue(value, styleIndex, styles, dateSystem) ==
    IF styles.has /\ styleIndex > 0 /\ isDateTimeStyle(styles.value, styleIndex)
    THEN convertExcelSerial(value, dateSystem)
    ELSE formatNumericValue(value)

\* sharedStrings: [has, value] the provider the converter is given, if any
convertCellValue(cell, sharedStrings, styles, dateSystem) ==
    IF isEmpty(cell) THEN <<>>
    ELSE CASE cell.type = "Boolean" ->
                 IF getBoolean(cell) THEN <<"T", "R", "U", "E">>
                 ELSE <<"F", "A", "L", "S", "E">>
           [] cell.type = "Error" -> formatErrorValue(getString(cell))
           [] cell.type \in {"InlineString", "String"} -> getString(cell)
           [] cell.type = "SharedString" ->
                 IF sharedStrings.has /\ isSharedStringIndex(cell)
                 THEN LET str == tryGetString(sharedStrings.value, getSharedStringIndex(cell))
                      IN IF str.has THEN str.value ELSE <<>>
                 ELSE getString(cell)
           [] cell.type = "Number" ->
                 convertNumericValue(getNumber(cell), cell.styleIndex, styles, dateSystem)
           [] OTHER -> getString(cell)

(***************************************************************************)
(* Shared-string parts: <sst count=..> with one <si> per item.             *)
(*   self   <si/>             empty  <si></si>                             *)
(*   t      <si><t>x</t></si> tself  <si><t/></si>                         *)
(*   rich   <si><r><t>x1</t></r><r><t>x2</t></r>..</si>                    *)
(***************************************************************************)
SiItem(k, x, runs) == [k |-> k, x |-> x, runs |-> runs]

RECURSIVE RunNodes(_)
RunNodes(runs) ==
    IF runs = <<>> THEN <<>>
    ELSE XElem("r", <<>>, 2, XElem("t", <<>>, 3, XText(Head(runs), 4))) \o RunNodes(Tail(runs))

SiNodes(item) ==
    CASE item.k = "self" -> XEmpty("si", <<>>, 1)
      [] item.k = "empty" -> XElem("si", <<>>, 1, <<>>)
      [] item.k = "t" -> XElem("si", <<>>, 1, XElem("t", <<>>, 2, XText(item.x, 3)))
      [] item.k = "tself" -> XElem("si", <<>>, 1, XEmpty("t", <<>>, 2))
      [] item.k = "rich" ->
            XElem("si", <<>>, 1,
                  (IF item.x = <<>> THEN <<>> ELSE XElem("t", <<>>, 2, XText(item.x, 3)))
                  \o RunNodes(item.runs))

SstDoc(items, countAttr) ==
    [nodes |-> XElem("sst", IF countAttr.has THEN <<<<"count", countAttr.value>>>> ELSE <<>>,
                     0, Concat([i \in 1..Len(items) |-> SiNodes(items[i])])),
     fault |-> 0, present |-> TRUE]

AbsentPart == [nodes |-> <<>>, fault |-> 0, present |-> FALSE]

PlainSiItems ==
    {SiItem("self", <<>>, <<>>), SiItem("empty", <<>>, <<>>), SiItem("tself", <<>>, <<>>),
     SiItem("t", <<"a">>, <<>>), SiItem("t", <<"D", "u", "e">>, <<>>)}

SstModes == {"Auto", "InMemory", "External"}
\* Auto spills when 50 bytes per <si> exceed the threshold: from two <si> on
MemoryThresholds == {60}
MaxStringLengths == {2, 1000}
CountAttrs == {NullOpt, Some(<<"7">>)}

SstConfigs ==
    [mode : SstModes, memoryThreshold : MemoryThresholds,
     maxStringLength : MaxStringLengths, flattenRichText : BOOLEAN]

SstInputs ==
    [items : SeqsUpTo(PlainSiItems, MaxSi), countAttr : CountAttrs,
     present : {TRUE}, canCreate : BOOLEAN]
    \cup [items : {<<>>}, countAttr : {NullOpt}, present : {FALSE}, canCreate : {TRUE}]

SstPart(in) == IF in.present THEN SstDoc(in.items, in.countAttr) ELSE AbsentPart

(***************************************************************************)
(* The CSV row collector (CsvRowCollectorImpl).                            *)
(***************************************************************************)
MergedCellRange(topLeft, bottomRight) == [topLeft |-> topLeft, bottomRight |-> bottomRight]
ColumnInfo(columnIndex, hidden) == [columnIndex |-> columnIndex, hidden |-> hidden]
WorksheetMetadata(mergedCells, columnInfo) ==
    [mergedCells |-> mergedCells, columnInfo |-> columnInfo]
RowData(rowNumber, hidden, cells) == [rowNumber |-> rowNumber, hidden |-> hidden, cells |-> cells]

\* WorksheetMetadata::isColumnHidden
\* (the first descriptor of the column decides)
isColumnHidden(metadata, col) ==
    LET hits == {i \in 1..Len(metadata.columnInfo) :
                    metadata.columnInfo[i].columnIndex = col}
    IN hits # {}
       /\ metadata.columnInfo[CHOOSE i \in hits : \A j \in hits : i <= j].hidden

RangeContains(range, coord) ==
    /\ range.topLeft.row <= coord.row /\ coord.row <= range.bottomRight.row
    /\ range.topLeft.column <= coord.column /\ coord.column <= range.bottomRight.column

\* WorksheetMetadata::findMergedCellRange: the first range that holds coord
findMergedCellRange(metadata, coord) ==
    LET hits == {i \in 1..Len(metadata.mergedCells) :
                    RangeContains(metadata.mergedCells[i], coord)}
    IN IF hits = {} THEN NullOpt
       ELSE Some(metadata.mergedCells[CHOOSE i \in hits : \A j \in hits : i <= j])

\* the constructor: options is [has, value]
CsvFresh(sharedStrings, styles, dateSystem, options) ==
    [m_sharedStrings |-> sharedStrings, m_styles |-> styles, m_dateSystem |-> dateSystem,
     m_options |-> options,
     m_delimiter |-> IF options.has /\ options.value.delimiter # NUL
                     THEN options.value.delimiter ELSE ",",
     m_worksheetMetadata |-> WorksheetMetadata(<<>>, <<>>),
     m_mergedCellValues |-> {},
     m_csvOutput |-> <<>>, m_rowCount |-> 0, m_errorMessages |-> <<>>]

\* a mutation of needsQuoting: a carriage return alone asks for no quotes
needsQuoting_withoutCR(field, delimiter) ==
    \/ Contains(field, delimiter)
    \/ Contains(field, QUOTE)
    \/ Contains(field, LF)

needsQuoting(field, delimiter) ==
    \/ Contains(field, delimiter)
    \/ Contains(field, QUOTE)
    \/ Contains(field, LF)
    \/ Contains(field, CR)

RECURSIVE QuotedChars(_)
QuotedChars(field) ==
    IF field = <<>> THEN <<>>
    ELSE (IF Head(field) = QUOTE THEN <<QUOTE>> ELSE <<>>) \o <<Head(field)>>
         \o QuotedChars(Tail(field))

\* what appendEscapedCsvField appends for a field
appendEscapedCsvField(field, delimiter) ==
    IF ~needsQuoting(field, delimiter) THEN field
    ELSE <<QUOTE>> \o QuotedChars(field) \o <<QUOTE>>

Propagate(c) == c.m_options.has /\ c.m_options.value.mergedHandling = "PROPAGATE"

CachedValue(c, range) ==
    LET hits == {e \in c.m_mergedCellValues : e.key = range}
    IN IF hits = {} THEN NullOpt ELSE Some((CHOOSE e \in hits : TRUE).value)

handleMergedCell(c, coord) ==
    IF ~Propagate(c) THEN <<>>
    ELSE LET mergedRange == findMergedCellRange(c.m_worksheetMetadata, coord)
         IN IF ~mergedRange.has THEN <<>>
            ELSE LET it == CachedValue(c, mergedRange.value)
                 IN IF it.has THEN it.value ELSE <<>>

RECURSIVE MaxColumn(_, _)
MaxColumn(cells, maxColumn) ==
    IF cells = <<>> THEN maxColumn
    ELSE MaxColumn(Tail(cells), Max2(maxColumn, Head(cells).coordinate.column))

\* the cursor of handleRow: skip the cells left of col (cellIndex is 0-based)
RECURSIVE CursorSkip(_, _, _)
CursorSkip(cells, cellIndex, col) ==
    IF cellIndex < Len(cells) /\ cells[cellIndex + 1].coordinate.column < col
    THEN CursorSkip(cells, cellIndex + 1, col)
    ELSE cellIndex

\* a mutation of ColumnSkipped: no column is ever skipped
ColumnSkipped_never(c, col) == FALSE

\* the hidden-column filter of handleRow
ColumnSkipped(c, col) ==
    /\ isColumnHidden(c.m_worksheetMetadata, col)
    /\ c.m_options.has /\ ~c.m_options.value.includeHiddenColumns

\* the column loop of handleRow.  env = [sst, styles]: the objects the
\* collector's pointers refer to.  fields: what was emitted so far, each
\* [col, value, written].
RECURSIVE RowLoop(_, _, _, _, _, _, _, _)
RowLoop(c, env, row, col, maxColumn, cellIndex, firstField, fields) ==
    IF col > maxColumn
    THEN [c |-> [c EXCEPT !.m_csvOutput = @ \o <<LF>>, !.m_rowCount = @ + 1],
          fields |-> fields]
    ELSE IF ColumnSkipped(c, col)
    THEN RowLoop(c, env, row, col + 1, maxColumn, cellIndex, firstField, fields)
    ELSE LET at == CursorSkip(row.cells, cellIndex, col)
             found == at < Len(row.cells) /\ row.cells[at + 1].coordinate.column = col
             cell == row.cells[at + 1]
             cellValue ==
                 IF found
                 THEN convertCellValue(cell,
                          [has |-> c.m_sharedStrings, value |-> env.sst],
                          [has |-> c.m_styles, value |-> env.styles], c.m_dateSystem)
                 ELSE handleMergedCell(c, CellCoordinate(row.rowNumber, col))
             mergedRange == findMergedCellRange(c.m_worksheetMetadata, cell.coordinate)
             cache ==
                 IF found /\ Propagate(c) /\ mergedRange.has
                    /\ mergedRange.value.topLeft = cell.coordinate
                 THEN {e \in c.m_mergedCellValues : e.key # mergedRange.value}
                      \cup {[key |-> mergedRange.value, value |-> cellValue]}
                 ELSE c.m_mergedCellValues
             written == appendEscapedCsvField(cellValue, c.m_delimiter)
         IN RowLoop([c EXCEPT !.m_mergedCellValues = cache,
                              !.m_csvOutput = @ \o (IF firstField THEN <<>>
                                                    ELSE <<c.m_delimiter>>) \o written],
                    env, row, col + 1, maxColumn, IF found THEN at + 1 ELSE at, FALSE,
                    Append(fields, [col |-> col, value |-> cellValue, written |-> written]))

RowSkipped(c, row) ==
    row.hidden /\ c.m_options.has /\ ~c.m_options.value.includeHiddenRows

\* handleRow: [c, fields]
handleRow(c, env, row) ==
    IF RowSkipped(c, row) THEN [c |-> c, fields |-> <<>>]
    ELSE IF row.cells = <<>>
    THEN [c |-> [c EXCEPT !.m_csvOutput = @ \o <<LF>>, !.m_rowCount = @ + 1],
          fields |-> <<>>]
    ELSE RowLoop(c, env, row, 1, MaxColumn(row.cells, 0), 0, TRUE, <<>>)

handleWorksheetMetadata(c, metadata) == [c EXCEPT !.m_worksheetMetadata = metadata]

(***************************************************************************)
(* The streaming sheet reader (SheetStreamReader::Impl).  The handler's    *)
(* calls are collected as events [e, row, metadata]:                       *)
(*   e = "row"  handleRow(row)      e = "metadata"  handleWorksheetMetadata *)
(*   e = "error"  handleError                                              *)
(***************************************************************************)
Letters == <<"A", "B", "C", "D", "E", "F", "G", "H", "I", "J", "K", "L", "M",
             "N", "O", "P", "Q", "R", "S", "T", "U", "V", "W", "X", "Y", "Z">>
IsUpper(ch) == \E i \in 1..26 : Letters[i] = ch
LetterVal(ch) == CHOOSE i \in 1..26 : Letters[i] = ch
IsDigit(ch) == DigitVal(ch) >= 0

\* the leading column letters of a reference: [column, rest]
RECURSIVE RefColumn(_, _)
RefColumn(ref, column) ==
    IF ref # <<>> /\ IsUpper(Head(ref))
    THEN RefColumn(Tail(ref), column * 26 + LetterVal(Head(ref)))
    ELSE [column |-> column, rest |-> ref]
\* the leading digits of a text: [value, rest]
RECURSIVE RefDigits(_, _)
RefDigits(ref, value) ==
    IF ref # <<>> /\ IsDigit(Head(ref))
    THEN RefDigits(Tail(ref), value * 10 + DigitVal(Head(ref)))
    ELSE [value |-> value, rest |-> ref]

\* parseCellReference: the coordinate, if ref is letters then a row number
parseCellReference(ref) ==
    LET c == RefColumn(ref, 0)
        r == RefDigits(c.rest, 0)
    IN IF ref = <<>> \/ c.column = 0 THEN NullOpt
       ELSE IF c.rest = <<>> \/ ~IsDigit(Head(c.rest)) \/ Head(c.rest) = "0" THEN NullOpt
       ELSE IF r.rest # <<>> \/ r.value <= 0 THEN NullOpt
       ELSE Some(CellCoordinate(r.value, c.column))

\* parseInt (std::from_chars): an optional minus sign and digits, nothing else
parseInt(text) ==
    LET neg == text # <<>> /\ Head(text) = "-"
        body == IF neg THEN Tail(text) ELSE text
        d == RefDigits(body, 0)
    IN IF body = <<>> \/ d.rest # <<>> THEN NullOpt
       ELSE Some(IF neg THEN -d.value ELSE d.value)

\* std::strtod on the decimal texts of the model: digits with an optional
\* fraction of quarters; a text that is no number is not consumed to its end
RECURSIVE AllDigits(_)
AllDigits(text) == text = <<>> \/ (IsDigit(Head(text)) /\ AllDigits(Tail(text)))
FractionUnits(frac) ==
    CASE frac = <<"5">> -> Some(2 * (UnitsPerDay \div 4))
      [] frac = <<"2", "5">> -> Some(UnitsPerDay \div 4)
      [] frac = <<"7", "5">> -> Some(3 * (UnitsPerDay \div 4))
      [] AllDigits(frac) /\ \A i \in 1..Len(frac) : frac[i] = "0" -> Some(0)
      [] OTHER -> NullOpt
strtod(text) ==
    LET neg == text # <<>> /\ Head(text) = "-"
        body == IF neg THEN Tail(text) ELSE text
        d == RefDigits(body, 0)
        frac == IF d.rest # <<>> /\ Head(d.rest) = "." THEN FractionUnits(Tail(d.rest))
                ELSE IF d.rest = <<>> THEN Some(0) ELSE NullOpt
    IN IF body = <<>> \/ ~IsDigit(Head(body)) \/ ~frac.has THEN NullOpt
       ELSE Some((IF neg THEN -1 ELSE 1) * (d.value * UnitsPerDay + frac.value))

\* SheetStreamReader::Impl::convertCellValue
sheetConvertCellValue(valueStr, type) ==
    IF valueStr = <<>> THEN VEmpty
    ELSE CASE type = "Boolean" -> VBool(valueStr = <<"1">>)
           [] type = "Number" ->
                 LET parsed == strtod(valueStr)
                 IN IF parsed.has THEN VDouble(parsed.value) ELSE VEmpty
           [] type = "SharedString" ->
                 LET index == parseInt(valueStr)
                 IN IF index.has THEN VIndex(index.value) ELSE VEmpty
           [] OTHER -> VText(valueStr)

\* readElementText: the text nodes up to the next end-element node, which
\* it consumes: [text, pos]
RECURSIVE readElementText(_, _, _)
readElementText(doc, pos, result) ==
    IF xmlTextReaderRead(doc, pos) # 1 THEN [text |-> result, pos |-> pos]
    ELSE LET node == doc.nodes[pos + 1]
         IN IF node.t = "T" THEN readElementText(doc, pos + 1, result \o node.x)
            ELSE IF node.t = "Z" THEN [text |-> result, pos |-> pos + 1]
            ELSE readElementText(doc, pos + 1, result)

parseInlineString(doc, pos) == readElementText(doc, pos, <<>>)

CellTypeOf(attrValue) ==
    CASE attrValue = <<"b">> -> "Boolean"
      [] attrValue = <<"e">> -> "Error"
      [] attrValue = <<"n">> -> "Number"
      [] attrValue = <<"s">> -> "SharedString"
      [] attrValue = <<"s", "t", "r">> -> "String"
      [] attrValue = <<"i", "n", "l", "i", "n", "e", "S", "t", "r">> -> "InlineString"
      [] OTHER -> "Unknown"

\* a default-constructed CellData
DefaultCell == CellData(0, 0, "Unknown", 0, VEmpty)

\* the attribute loop of parseCell: [cell, hasTypeAttribute]
RECURSIVE CellAttributes(_, _, _)
CellAttributes(attrs, cell, hasTypeAttribute) ==
    IF attrs = <<>> THEN [cell |-> cell, hasTypeAttribute |-> hasTypeAttribute]
    ELSE LET attrName == Head(attrs)[1]
             attrValue == Head(attrs)[2]
             coord == parseCellReference(attrValue)
             parsedStyle == parseInt(attrValue)
         IN IF attrName = "r"
            THEN CellAttributes(Tail(attrs),
                     IF coord.has THEN [cell EXCEPT !.coordinate = coord.value] ELSE cell,
                     hasTypeAttribute)
            ELSE IF attrName = "t"
            THEN CellAttributes(Tail(attrs), [cell EXCEPT !.type = CellTypeOf(attrValue)], TRUE)
            ELSE IF attrName = "s"
            THEN CellAttributes(Tail(attrs),
                     IF parsedStyle.has /\ parsedStyle.value >= 0
                     THEN [cell EXCEPT !.styleIndex = parsedStyle.value] ELSE cell,
                     hasTypeAttribute)
            ELSE CellAttributes(Tail(attrs), cell, hasTypeAttribute)

\* the content loop of parseCell: [cell, pos]
RECURSIVE CellContent(_, _, _)
CellContent(doc, pos, cell) ==
    IF xmlTextReaderRead(doc, pos) # 1 THEN [cell |-> cell, pos |-> pos]
    ELSE LET node == doc.nodes[pos + 1]
         IN IF node.t = "E" /\ node.n = "v"
            THEN LET v == readElementText(doc, pos + 1, <<>>)
                 IN CellContent(doc, v.pos,
                        [cell EXCEPT !.value = sheetConvertCellValue(v.text, cell.type)])
            ELSE IF node.t = "E" /\ node.n = "is"
            THEN LET v == parseInlineString(doc, pos + 1)
                 IN CellContent(doc, v.pos,
                        [cell EXCEPT !.value = VText(v.text), !.type = "InlineString"])
            ELSE IF node.t = "Z" /\ node.n = "c" THEN [cell |-> cell, pos |-> pos + 1]
            ELSE CellContent(doc, pos + 1, cell)

\* parseCell with the reader on the <c> at pos: [cell, pos]
parseCell(doc, pos) ==
    LET a == CellAttributes(doc.nodes[pos].a, DefaultCell, FALSE)
        cell == IF a.hasTypeAttribute THEN a.cell ELSE [a.cell EXCEPT !.type = "Number"]
    IN IF doc.nodes[pos].e THEN [cell |-> [cell EXCEPT !.value = VEmpty], pos |-> pos]
       ELSE CellContent(doc, pos, cell)

\* the attribute loop of parseRow
RECURSIVE RowAttributes(_, _)
RowAttributes(attrs, rowData) ==
    IF attrs = <<>> THEN rowData
    ELSE LET attrName == Head(attrs)[1]
             attrValue == Head(attrs)[2]
             parsedRow == parseInt(attrValue)
         IN IF attrName = "r"
            THEN RowAttributes(Tail(attrs),
                     IF parsedRow.has /\ parsedRow.value > 0
                     THEN [rowData EXCEPT !.rowNumber = parsedRow.value] ELSE rowData)
            ELSE IF attrName = "hidden"
            THEN RowAttributes(Tail(attrs),
                     [rowData EXCEPT !.hidden = attrValue \in {<<"1">>, <<"t", "r", "u", "e">>}])
            ELSE RowAttributes(Tail(attrs), rowData)

\* the cell loop of parseRow: [rowData, pos]
RECURSIVE RowCells(_, _, _)
RowCells(doc, pos, rowData) ==
    IF xmlTextReaderRead(doc, pos) # 1 THEN [rowData |-> rowData, pos |-> pos]
    ELSE LET node == doc.nodes[pos + 1]
         IN IF node.t = "E" /\ node.n = "c"
            THEN LET c == parseCell(doc, pos + 1)
                 IN RowCells(doc, c.pos, [rowData EXCEPT !.cells = Append(@, c.cell)])
            ELSE IF node.t = "Z" /\ node.n = "row" THEN [rowData |-> rowData, pos |-> pos + 1]
            ELSE RowCells(doc, pos + 1, rowData)

\* parseRow with the reader on the <row> at pos: [rowData, pos]; the row is
\* then handed to the handler
parseRow(doc, pos) ==
    LET rowData == RowAttributes(doc.nodes[pos].a, RowData(1, FALSE, <<>>))
    IN IF doc.nodes[pos].e THEN [rowData |-> rowData, pos |-> pos]
       ELSE RowCells(doc, pos, rowData)

\* CellCoordinate::fromReference: letters of either case, then a row number
\* that is not zero
LowerLetters == <<"a", "b", "c", "d", "e", "f", "g", "h", "i", "j", "k", "l", "m",
                  "n", "o", "p", "q", "r", "s", "t", "u", "v", "w", "x", "y", "z">>
IsAlpha(ch) == \E i \in 1..26 : Letters[i] = ch \/ LowerLetters[i] = ch
ToUpperVal(ch) == CHOOSE i \in 1..26 : Letters[i] = ch \/ LowerLetters[i] = ch
RECURSIVE AlphaColumn(_, _)
AlphaColumn(ref, column) ==
    IF ref # <<>> /\ IsAlpha(Head(ref))
    THEN AlphaColumn(Tail(ref), column * 26 + ToUpperVal(Head(ref)))
    ELSE [column |-> column, rest |-> ref]
CellCoordinate_fromReference(ref) ==
    LET c == AlphaColumn(ref, 0)
        r == RefDigits(c.rest, 0)
    IN IF ref = <<>> THEN NullOpt
       ELSE IF c.column = 0 \/ c.rest = <<>> THEN NullOpt
       ELSE IF r.value = 0 \/ r.rest # <<>> THEN NullOpt
       ELSE Some(CellCoordinate(r.value, c.column))

\* MergedCellRange::fromReference: "A1:C3", both corners cell references,
\* the first above and left of the second
RECURSIVE SplitAtColon(_, _)
SplitAtColon(text, before) ==
    IF text = <<>> THEN NullOpt
    ELSE IF Head(text) = ":" THEN Some(<<before, Tail(text)>>)
    ELSE SplitAtColon(Tail(text), Append(before, Head(text)))
MergedCellRange_fromReference(ref) ==
    LET parts == SplitAtColon(ref, <<>>)
        startCoord == CellCoordinate_fromReference(parts.value[1])
        endCoord == CellCoordinate_fromReference(parts.value[2])
    IN IF ~parts.has THEN NullOpt
       ELSE IF ~startCoord.has \/ ~endCoord.has THEN NullOpt
       ELSE IF startCoord.value.row > endCoord.value.row
               \/ startCoord.value.column > endCoord.value.column THEN NullOpt
       ELSE Some(MergedCellRange(startCoord.value, endCoord.value))

\* parseMergedCells with the reader on <mergeCells> at pos: [metadata, pos]
RECURSIVE MergeCellLoop(_, _, _)
MergeCellLoop(doc, pos, metadata) ==
    IF xmlTextReaderRead(doc, pos) # 1 THEN [metadata |-> metadata, pos |-> pos]
    ELSE LET node == doc.nodes[pos + 1]
             refAttr == xmlTextReaderGetAttribute(node, "ref")
             range == MergedCellRange_fromReference(refAttr.value)
         IN IF node.t = "E" /\ node.n = "mergeCell"
            THEN MergeCellLoop(doc, pos + 1,
                     IF refAttr.has /\ range.has
                     THEN [metadata EXCEPT !.mergedCells = Append(@, range.value)]
                     ELSE metadata)
            ELSE IF node.t = "Z" /\ node.n = "mergeCells"
            THEN [metadata |-> metadata, pos |-> pos + 1]
            ELSE MergeCellLoop(doc, pos + 1, metadata)
\* a mutation of parseMergedCells: the section starts from no columns
parseMergedCells_fresh(doc, pos, metadata) ==
    IF doc.nodes[pos].e THEN [metadata |-> metadata, pos |-> pos]
    ELSE MergeCellLoop(doc, pos, [metadata EXCEPT !.columnInfo = <<>>])
parseMergedCells(doc, pos, metadata) ==
    IF doc.nodes[pos].e THEN [metadata |-> metadata, pos |-> pos]
    ELSE MergeCellLoop(doc, pos, metadata)

\* std::atoi and std::stod on the attribute texts of the model: atoi reads
\* the leading digits, stod throws when the text starts with no number
atoi(text) == LeadingNat(text, 0)
stodThrows(text) == text = <<>> \/ ~IsDigit(Head(text))

\* the columns min..max of one <col>, appended in order
RECURSIVE ColumnRange(_, _, _, _)
ColumnRange(columnInfo, col, maxCol, isHidden) ==
    IF col > maxCol THEN columnInfo
    ELSE ColumnRange(Append(columnInfo, ColumnInfo(col, isHidden)), col + 1, maxCol, isHidden)

\* parseColumns with the reader on <cols> at pos: [metadata, pos, thrown]
RECURSIVE ColLoop(_, _, _)
ColLoop(doc, pos, metadata) ==
    IF xmlTextReaderRead(doc, pos) # 1
    THEN [metadata |-> metadata, pos |-> pos, thrown |-> FALSE]
    ELSE LET node == doc.nodes[pos + 1]
             minAttr == xmlTextReaderGetAttribute(node, "min")
             maxAttr == xmlTextReaderGetAttribute(node, "max")
             hiddenAttr == xmlTextReaderGetAttribute(node, "hidden")
             widthAttr == xmlTextReaderGetAttribute(node, "width")
             minCol == IF minAttr.has THEN atoi(minAttr.value) ELSE 1
             maxCol == IF maxAttr.has THEN atoi(maxAttr.value) ELSE 1
             isHidden == hiddenAttr.has
                         /\ hiddenAttr.value \in {<<"1">>, <<"t", "r", "u", "e">>}
         IN IF node.t = "E" /\ node.n = "col"
            THEN IF widthAttr.has /\ stodThrows(widthAttr.value)
                 THEN [metadata |-> metadata, pos |-> pos + 1, thrown |-> TRUE]
                 ELSE ColLoop(doc, pos + 1,
                          [metadata EXCEPT
                              !.columnInfo = ColumnRange(@, minCol, maxCol, isHidden)])
            ELSE IF node.t = "Z" /\ node.n = "cols"
            THEN [metadata |-> metadata, pos |-> pos + 1, thrown |-> FALSE]
            ELSE ColLoop(doc, pos + 1, metadata)
parseColumns(doc, pos, metadata) ==
    IF doc.nodes[pos].e THEN [metadata |-> metadata, pos |-> pos, thrown |-> FALSE]
    ELSE ColLoop(doc, pos, metadata)

\* the handler's calls
RowEvent(rowData) ==
    [e |-> "row", row |-> rowData, metadata |-> WorksheetMetadata(<<>>, <<>>)]
MetadataEvent(metadata) ==
    [e |-> "metadata", row |-> RowData(0, FALSE, <<>>), metadata |-> metadata]
ErrorEvent ==
    [e |-> "error", row |-> RowData(0, FALSE, <<>>), metadata |-> WorksheetMetadata(<<>>, <<>>)]

\* parseWorksheetXml: [events, thrown]
RECURSIVE parseWorksheetXml(_, _, _, _)
parseWorksheetXml(doc, pos, metadata, events) ==
    LET ret == xmlTextReaderRead(doc, pos)
    IN IF ret # 1
       THEN [events |-> Append(events, MetadataEvent(metadata)), thrown |-> ret # 0]
       ELSE LET node == doc.nodes[pos + 1]
            IN IF node.t = "E" /\ node.n = "row"
               THEN LET r == parseRow(doc, pos + 1)
                    IN parseWorksheetXml(doc, r.pos, metadata,
                                         Append(events, RowEvent(r.rowData)))
               ELSE IF node.t = "E" /\ node.n = "mergeCells"
               THEN LET m == parseMergedCells(doc, pos + 1, metadata)
                    IN parseWorksheetXml(doc, m.pos, m.metadata,
                                         Append(events, MetadataEvent(m.metadata)))
               ELSE IF node.t = "E" /\ node.n = "cols"
               THEN LET c == parseColumns(doc, pos + 1, metadata)
                    IN IF c.thrown THEN [events |-> events, thrown |-> TRUE]
                       ELSE parseWorksheetXml(doc, c.pos, c.metadata,
                                              Append(events, MetadataEvent(c.metadata)))
               ELSE parseWorksheetXml(doc, pos + 1, metadata, events)

\* parseSheetData: the calls the handler receives for the bytes of one part
parseSheetData(xmlData) ==
    IF xmlData.empty THEN <<ErrorEvent>>
    ELSE LET r == parseWorksheetXml(xmlData, 0, WorksheetMetadata(<<>>, <<>>), <<>>)
         IN IF r.thrown THEN Append(r.events, ErrorEvent) ELSE r.events

(***************************************************************************)
(* The ZIP reader (ZipReader::Impl).  An archive file is                   *)
(*   [exists, readable, entries], an entry [name, size, encrypted, data]:  *)
(* name is the stored file name, size the uncompressed size (sizes are     *)
(* counted in MiB), encrypted bit 0 of the general purpose flag.  The       *)
(* reader's m_unzFile tells whether it holds a handle; the operations take *)
(* the archive the handle stands for as file.                              *)
(***************************************************************************)
FilenameBufferSize == 1024
MaxPathLength == 1024
UNZ_MAXFILENAMEINZIP == 256
BACKSLASH == "\\"
SLASH == "/"

ZipSecurityLimits(maxEntries, maxEntrySize, maxTotalUncompressed) ==
    [maxEntries |-> maxEntries, maxEntrySize |-> maxEntrySize,
     maxTotalUncompressed |-> maxTotalUncompressed]
\* the limits of a default-constructed ZipSecurityLimits, sizes in MiB
DefaultZipSecurityLimits == ZipSecurityLimits(10000, 256, 2048)

ZipEntry(path, uncompressedSize, isEncrypted) ==
    [path |-> path, uncompressedSize |-> uncompressedSize, isEncrypted |-> isEncrypted]

NoArchive == [exists |-> FALSE, readable |-> FALSE, entries |-> <<>>]

\* ZipReader::Impl::Impl
ZipFresh(limits) ==
    [m_limits |-> limits, m_unzFile |-> FALSE, m_isOpen |-> FALSE, m_entries |-> <<>>]

\* the bytes of a char array read as a C string: up to the first NUL
CStr(bytes) ==
    LET nuls == {i \in 1..Len(bytes) : bytes[i] = NUL}
    IN IF nuls = {} THEN bytes
       ELSE SubSeq(bytes, 1, (CHOOSE i \in nuls : \A j \in nuls : i <= j) - 1)

\* unzGetCurrentFileInfo64 into char filename[1024] = {0}, read back as a C
\* string: a name shorter than the buffer is NUL-terminated; a longer one
\* fills the buffer and leaves it unterminated, and the read runs on into
\* the bytes that follow the array (overrun, up to their first NUL)
FilenameRead(name, overrun) ==
    IF Len(name) < FilenameBufferSize \/ Contains(Prefix(name, FilenameBufferSize), NUL)
    THEN CStr(name)
    ELSE Prefix(name, FilenameBufferSize) \o CStr(overrun)

\* sanitizePath
RECURSIVE StripLeadingSlashes(_)
StripLeadingSlashes(path) ==
    IF path # <<>> /\ Head(path) = SLASH THEN StripLeadingSlashes(Tail(path)) ELSE path
sanitizePath(path) ==
    StripLeadingSlashes([i \in 1..Len(path) |-> IF path[i] = BACKSLASH THEN SLASH ELSE path[i]])

HasDotDot(path) == \E i \in 1..(Len(path) - 1) : path[i] = "." /\ path[i + 1] = "."

\* a mutation of isPathSuspicious: path traversal is not looked for
isPathSuspicious_withoutTraversal(path) ==
    \/ (path # <<>> /\ path[1] = SLASH)
    \/ Contains(path, NUL)
    \/ Len(path) > MaxPathLength
isPathSuspicious(path) ==
    \/ HasDotDot(path)
    \/ (path # <<>> /\ path[1] = SLASH)
    \/ Contains(path, NUL)
    \/ Len(path) > MaxPathLength

\* validateZipSecurity: TRUE when it throws
RECURSIVE ValidateLoop(_, _, _, _)
ValidateLoop(limits, entries, totalUncompressed, entryCount) ==
    IF entries = <<>> THEN FALSE
    ELSE LET total == totalUncompressed + Head(entries).size
             count == entryCount + 1
         IN IF count > limits.maxEntries THEN TRUE
            ELSE IF total > limits.maxTotalUncompressed THEN TRUE
            ELSE ValidateLoop(limits, Tail(entries), total, count)
validateZipSecurity(z, file) == ValidateLoop(z.m_limits, file.entries, 0, 0)

\* close
ZipClosed(z) ==
    [z EXCEPT !.m_unzFile = FALSE, !.m_isOpen = FALSE, !.m_entries = <<>>]

\* open(path), file being what is stored at path: [z, thrown]
ZipOpened(z, file) ==
    LET z0 == IF z.m_unzFile THEN ZipClosed(z) ELSE z
        z1 == [z0 EXCEPT !.m_unzFile = TRUE]
    IN IF ~file.exists THEN [z |-> z0, thrown |-> TRUE]
       ELSE IF ~file.readable THEN [z |-> z0, thrown |-> TRUE]
       ELSE IF validateZipSecurity(z1, file) THEN [z |-> z1, thrown |-> TRUE]
       ELSE [z |-> [z1 EXCEPT !.m_isOpen = TRUE], thrown |-> FALSE]

\* the enumeration loop of listEntries from entry i on: [z, thrown]
RECURSIVE ListLoop(_, _, _, _)
ListLoop(z, file, i, overrun) ==
    IF i > Len(file.entries) THEN [z |-> z, thrown |-> FALSE]
    ELSE LET fileInfo == file.entries[i]
             entry == ZipEntry(sanitizePath(FilenameRead(fileInfo.name, overrun)),
                               fileInfo.size, fileInfo.encrypted)
         IN IF entry.path = <<>> \/ isPathSuspicious(entry.path)
            THEN ListLoop(z, file, i + 1, overrun)
            ELSE IF entry.uncompressedSize > z.m_limits.maxEntrySize
            THEN [z |-> z, thrown |-> TRUE]
            ELSE IF entry.isEncrypted THEN [z |-> z, thrown |-> TRUE]
            ELSE ListLoop([z EXCEPT !.m_entries = Append(@, entry)], file, i + 1, overrun)

\* listEntries: [z, thrown, entries]
listEntries(z, file, overrun) ==
    IF ~z.m_isOpen THEN [z |-> z, thrown |-> TRUE, entries |-> <<>>]
    ELSE IF z.m_entries # <<>> THEN [z |-> z, thrown |-> FALSE, entries |-> z.m_entries]
    ELSE LET r == ListLoop(z, file, 1, overrun)
         IN IF r.thrown THEN [z |-> r.z, thrown |-> TRUE, entries |-> <<>>]
            ELSE IF Len(r.z.m_entries) > z.m_limits.maxEntries
            THEN [z |-> r.z, thrown |-> TRUE, entries |-> <<>>]
            ELSE [z |-> r.z, thrown |-> FALSE, entries |-> r.z.m_entries]

\* hasEntry: [z, thrown, found]
hasEntry(z, file, path, overrun) ==
    IF ~z.m_isOpen THEN [z |-> z, thrown |-> TRUE, found |-> FALSE]
    ELSE LET l == listEntries(z, file, overrun)
         IN IF l.thrown THEN [z |-> l.z, thrown |-> TRUE, found |-> FALSE]
            ELSE [z |-> l.z, thrown |-> FALSE,
                  found |-> \E i \in 1..Len(l.entries) : l.entries[i].path = path]

\* unzLocateFile(path.c_str()): the first entry whose stored name compares
\* equal as a C string, 0 when there is none or the name is too long
unzLocateFile(file, path) ==
    LET name == CStr(path)
        at == {i \in 1..Len(file.entries) :
                  CStr(Prefix(file.entries[i].name, UNZ_MAXFILENAMEINZIP)) = name}
    IN IF Len(name) >= UNZ_MAXFILENAMEINZIP \/ at = {} THEN 0
       ELSE CHOOSE i \in at : \A j \in at : i <= j

\* readEntry: [thrown, data]
readEntry(z, file, path) ==
    LET at == unzLocateFile(file, path)
        fileInfo == file.entries[at]
    IN IF ~z.m_isOpen THEN [thrown |-> TRUE, data |-> <<>>]
       ELSE IF isPathSuspicious(path) THEN [thrown |-> TRUE, data |-> <<>>]
       ELSE IF at = 0 THEN [thrown |-> TRUE, data |-> <<>>]
       ELSE IF fileInfo.size > z.m_limits.maxEntrySize THEN [thrown |-> TRUE, data |-> <<>>]
       ELSE IF fileInfo.encrypted THEN [thrown |-> TRUE, data |-> <<>>]
       ELSE [thrown |-> FALSE, data |-> fileInfo.data]

(***************************************************************************)
(* The OPC package (OpcPackage::Impl) and the workbook (Workbook::Impl).   *)
(* A std::map is held as the sequence of its entries in key order; the     *)
(* keys of the model are ordered by KeyRank.                               *)
(***************************************************************************)
ContentTypesPath ==
    <<"[", "C", "o", "n", "t", "e", "n", "t", "_", "T", "y", "p", "e",
      "s", "]", ".", "x", "m", "l">>
MainRelsPath ==
    <<"_", "r", "e", "l", "s", "/", ".", "r", "e", "l", "s">>
WorkbookRelsPath ==
    <<"x", "l", "/", "_", "r", "e", "l", "s", "/", "w", "o", "r", "k",
      "b", "o", "o", "k", ".", "x", "m", "l", ".", "r", "e", "l",
      "s">>
StylesPath ==
    <<"x", "l", "/", "s", "t", "y", "l", "e", "s", ".", "x", "m", "l">>
SharedStringsPath ==
    <<"x", "l", "/", "s", "h", "a", "r", "e", "d", "S", "t", "r", "i",
      "n", "g", "s", ".", "x", "m", "l">>
XlPrefix ==
    <<"x", "l", "/">>

OfficeDocumentType == "http://schemas.openxmlformats.org/officeDocument/2006/relationships/officeDocument"
WorksheetType == "http://schemas.openxmlformats.org/officeDocument/2006/relationships/worksheet"
CorePropertiesType == "http://schemas.openxmlformats.org/package/2006/relationships/metadata/core-properties"
ExtendedPropertiesType == "http://schemas.openxmlformats.org/officeDocument/2006/relationships/extended-properties"
\* type.find("officeDocument") != npos
ContainsOfficeDocument(type) ==
    type \in {OfficeDocumentType, WorksheetType, ExtendedPropertiesType}

KeyRank(key) ==
    CASE key = "rId1" -> 1 [] key = "rId2" -> 2 [] key = "rId3" -> 3 [] OTHER -> 4

\* a mutation of MapPut: a new key goes to the end, whatever its order
RECURSIVE MapPut_atEnd(_, _, _)
MapPut_atEnd(map, key, value) ==
    IF map = <<>> THEN <<[key |-> key, value |-> value]>>
    ELSE IF Head(map).key = key THEN <<[key |-> key, value |-> value]>> \o Tail(map)
    ELSE <<Head(map)>> \o MapPut_atEnd(Tail(map), key, value)

\* map[key] = value
RECURSIVE MapPut(_, _, _)
MapPut(map, key, value) ==
    IF map = <<>> THEN <<[key |-> key, value |-> value]>>
    ELSE IF Head(map).key = key THEN <<[key |-> key, value |-> value]>> \o Tail(map)
    ELSE IF KeyRank(key) < KeyRank(Head(map).key)
    THEN <<[key |-> key, value |-> value]>> \o map
    ELSE <<Head(map)>> \o MapPut(Tail(map), key, value)
\* map.find(key)
MapFind(map, key) ==
    LET at == {i \in 1..Len(map) : map[i].key = key}
    IN IF at = {} THEN NullOpt ELSE Some(map[CHOOSE i \in at : TRUE].value)

Relationship(id, type, target) == [id |-> id, type |-> type, target |-> target]

\* the <Relationship> loop shared by parseXmlForRelationships and
\* parseWorkbookRelationships: [relationships, thrown]
RECURSIVE RelationshipLoop(_, _, _)
RelationshipLoop(doc, pos, relationships) ==
    LET result == xmlTextReaderRead(doc, pos)
    IN IF result # 1 THEN [relationships |-> relationships, thrown |-> result < 0]
       ELSE LET node == doc.nodes[pos + 1]
                id == xmlTextReaderGetAttribute(node, "Id")
                type == xmlTextReaderGetAttribute(node, "Type")
                target == xmlTextReaderGetAttribute(node, "Target")
            IN IF node.t = "E" /\ node.n = "Relationship" /\ id.has /\ type.has /\ target.has
               THEN RelationshipLoop(doc, pos + 1,
                        MapPut(relationships, id.value,
                               Relationship(id.value, type.value, target.value)))
               ELSE RelationshipLoop(doc, pos + 1, relationships)

\* parseXmlForContentTypes: [contentTypes, thrown]; m_contentTypes is held
\* as the set of its entries
RECURSIVE parseXmlForContentTypes(_, _, _)
parseXmlForContentTypes(doc, pos, contentTypes) ==
    LET result == xmlTextReaderRead(doc, pos)
    IN IF result # 1 THEN [contentTypes |-> contentTypes, thrown |-> result < 0]
       ELSE LET node == doc.nodes[pos + 1]
                partName == xmlTextReaderGetAttribute(node, "PartName")
                extension == xmlTextReaderGetAttribute(node, "Extension")
                contentType == xmlTextReaderGetAttribute(node, "ContentType")
                key == IF partName.has
                       THEN IF partName.value # <<>> /\ Head(partName.value) = SLASH
                            THEN Tail(partName.value) ELSE partName.value
                       ELSE IF extension.has THEN <<"*", ".">> \o extension.value
                       ELSE <<>>
            IN IF node.t = "E" /\ node.n \in {"Override", "Default"}
                  /\ contentType.has /\ key # <<>>
               THEN parseXmlForContentTypes(doc, pos + 1,
                        {c \in contentTypes : c.key # key}
                        \cup {[key |-> key, value |-> contentType.value]})
               ELSE parseXmlForContentTypes(doc, pos + 1, contentTypes)

\* OpcPackage::Impl::Impl: the package owns a ZipReader with default limits
OpcFresh ==
    [m_zipReader |-> ZipFresh(DefaultZipSecurityLimits), m_isOpen |-> FALSE,
     m_contentTypes |-> {}, m_relationships |-> <<>>]

\* OpcPackage::Impl::close
OpcClosed(package) ==
    [package EXCEPT !.m_zipReader = ZipClosed(@), !.m_isOpen = FALSE,
                    !.m_contentTypes = {}, !.m_relationships = <<>>]

\* hasEntry and then readEntry of a part, as every parser of a part does:
\* [z, thrown (an XlsxError), found, data]
ReadPart(z, file, path, overrun) ==
    WithValue(hasEntry(z, file, path, overrun), LAMBDA h :
        IF h.thrown THEN [z |-> h.z, thrown |-> TRUE, found |-> FALSE, data |-> AbsentPart]
        ELSE IF ~h.found
        THEN [z |-> h.z, thrown |-> FALSE, found |-> FALSE, data |-> AbsentPart]
        ELSE WithValue(readEntry(h.z, file, path), LAMBDA r :
                 IF r.thrown
                 THEN [z |-> h.z, thrown |-> TRUE, found |-> TRUE, data |-> AbsentPart]
                 ELSE [z |-> h.z, thrown |-> FALSE, found |-> TRUE, data |-> r.data]))

\* parseContentTypes: [package, thrown]
parseContentTypes(package, file, overrun) ==
    WithValue(ReadPart(package.m_zipReader, file, ContentTypesPath, overrun), LAMBDA part :
        IF part.thrown \/ ~part.found
        THEN [package |-> [package EXCEPT !.m_zipReader = part.z], thrown |-> TRUE]
        ELSE WithValue(parseXmlForContentTypes(part.data, 0, package.m_contentTypes),
                       LAMBDA parsed :
                 [package |-> [package EXCEPT !.m_zipReader = part.z,
                                              !.m_contentTypes = parsed.contentTypes],
                  thrown |-> parsed.thrown]))

\* parseXmlForRelationships: [relationships, thrown]
parseXmlForRelationships(doc, relationships) ==
    WithValue(RelationshipLoop(doc, 0, relationships), LAMBDA r :
        IF r.thrown THEN r
        ELSE [relationships |-> r.relationships, thrown |-> r.relationships = <<>>])

\* parseMainRelationships: [package, thrown]
parseMainRelationships(package, file, overrun) ==
    WithValue(ReadPart(package.m_zipReader, file, MainRelsPath, overrun), LAMBDA part :
        IF part.thrown \/ ~part.found
        THEN [package |-> [package EXCEPT !.m_zipReader = part.z], thrown |-> TRUE]
        ELSE WithValue(parseXmlForRelationships(part.data, package.m_relationships),
                       LAMBDA parsed :
                 [package |-> [package EXCEPT !.m_zipReader = part.z,
                                              !.m_relationships = parsed.relationships],
                  thrown |-> parsed.thrown]))

\* OpcPackage::Impl::open: [package, thrown]
OpcOpened(package, file, overrun) ==
    WithValue(IF package.m_zipReader.m_isOpen THEN OpcClosed(package) ELSE package, LAMBDA p0 :
    WithValue(ZipOpened(p0.m_zipReader, file), LAMBDA z :
        IF z.thrown THEN [package |-> [p0 EXCEPT !.m_zipReader = z.z], thrown |-> TRUE]
        ELSE WithValue(parseContentTypes([p0 EXCEPT !.m_zipReader = z.z], file, overrun),
                       LAMBDA p2 :
                 IF p2.thrown THEN p2
                 ELSE WithValue(parseMainRelationships(p2.package, file, overrun), LAMBDA p3 :
                          IF p3.thrown THEN p3
                          ELSE [package |-> [p3.package EXCEPT !.m_isOpen = TRUE],
                                thrown |-> FALSE]))))

\* findWorkbookPath: [thrown, path]
findWorkbookPath(package) ==
    LET at == {i \in 1..Len(package.m_relationships) :
                  ContainsOfficeDocument(package.m_relationships[i].value.type)}
    IN IF ~package.m_isOpen \/ at = {} THEN [thrown |-> TRUE, path |-> <<>>]
       ELSE [thrown |-> FALSE,
             path |-> package.m_relationships[CHOOSE i \in at : \A j \in at : i <= j]
                         .value.target]


(***************************************************************************)
(* The workbook (Workbook::Impl).                                          *)
(***************************************************************************)
SheetInfo(name, sheetId, relationshipId, visible, target) ==
    [name |-> name, sheetId |-> sheetId, relationshipId |-> relationshipId,
     visible |-> visible, target |-> target]

WorkbookFresh ==
    [m_isOpen |-> FALSE, m_sheets |-> <<>>, m_relationships |-> <<>>,
     m_properties |-> [dateSystem |-> "Date1900"]]

\* parseWorkbookProperties
parseWorkbookProperties(node, properties) ==
    LET date1904Attr == xmlTextReaderGetAttribute(node, "date1904")
    IN [properties EXCEPT
           !.dateSystem = IF date1904Attr.has
                             /\ date1904Attr.value \in {<<"1">>, <<"t", "r", "u", "e">>}
                          THEN "Date1904" ELSE "Date1900"]

\* parseSheetElement: the SheetInfo of one <sheet>
parseSheetElement(node) ==
    LET name == xmlTextReaderGetAttribute(node, "name")
        sheetId == xmlTextReaderGetAttribute(node, "sheetId")
        rId == xmlTextReaderGetAttribute(node, "r:id")
        state == xmlTextReaderGetAttribute(node, "state")
    IN SheetInfo(IF name.has THEN name.value ELSE "",
                 IF sheetId.has THEN atoi(sheetId.value) ELSE 0,
                 IF rId.has THEN rId.value ELSE "",
                 ~(state.has /\ state.value \in {"hidden", "veryHidden"}),
                 <<>>)

\* the read loop of parseWorkbook: [wb, thrown]
RECURSIVE WorkbookLoop(_, _, _)
WorkbookLoop(doc, pos, wb) ==
    LET result == xmlTextReaderRead(doc, pos)
    IN IF result # 1 THEN [wb |-> wb, thrown |-> result < 0]
       ELSE LET node == doc.nodes[pos + 1]
            IN IF node.t = "E" /\ node.n = "workbookPr"
               THEN WorkbookLoop(doc, pos + 1,
                        [wb EXCEPT !.m_properties = parseWorkbookProperties(node, @)])
               ELSE IF node.t = "E" /\ node.n = "sheet"
               THEN WorkbookLoop(doc, pos + 1,
                        [wb EXCEPT !.m_sheets = Append(@, parseSheetElement(node))])
               ELSE WorkbookLoop(doc, pos + 1, wb)

\* parseWorkbook: [wb, thrown]
parseWorkbook(wb, package, file) ==
    WithValue(findWorkbookPath(package), LAMBDA workbookPath :
        IF workbookPath.thrown THEN [wb |-> wb, thrown |-> TRUE]
        ELSE WithValue(readEntry(package.m_zipReader, file, workbookPath.path),
                       LAMBDA xmlData :
                 IF xmlData.thrown THEN [wb |-> wb, thrown |-> TRUE]
                 ELSE WorkbookLoop(xmlData.data, 0, wb)))

\* parseWorkbookRelationships: [wb, thrown]
parseWorkbookRelationships(wb, package, file, overrun) ==
    WithValue(ReadPart(package.m_zipReader, file, WorkbookRelsPath, overrun), LAMBDA part :
        IF ~package.m_isOpen \/ part.thrown \/ ~part.found THEN [wb |-> wb, thrown |-> TRUE]
        ELSE WithValue(RelationshipLoop(part.data, 0, wb.m_relationships), LAMBDA parsed :
                 [wb |-> [wb EXCEPT !.m_relationships = parsed.relationships],
                  thrown |-> parsed.thrown]))

\* updateSheetTargets: [wb, thrown]
updateSheetTargets(wb) ==
    LET found == [i \in 1..Len(wb.m_sheets) |->
                     MapFind(wb.m_relationships, wb.m_sheets[i].relationshipId)]
    IN IF \E i \in 1..Len(wb.m_sheets) : ~found[i].has THEN [wb |-> wb, thrown |-> TRUE]
       ELSE [wb |-> [wb EXCEPT !.m_sheets =
                        [i \in 1..Len(wb.m_sheets) |->
                            [wb.m_sheets[i] EXCEPT !.target = found[i].value.target]]],
             thrown |-> FALSE]

\* Workbook::Impl::close
WorkbookClosed(wb) == WorkbookFresh

\* Workbook::Impl::open: [wb, thrown]
WorkbookOpened(wb, package, file, overrun) ==
    WithValue(parseWorkbook(IF wb.m_isOpen THEN WorkbookClosed(wb) ELSE wb, package, file),
              LAMBDA w1 :
        IF w1.thrown THEN w1
        ELSE WithValue(parseWorkbookRelationships(w1.wb, package, file, overrun), LAMBDA w2 :
                 IF w2.thrown THEN w2
                 ELSE WithValue(updateSheetTargets(w2.wb), LAMBDA w3 :
                          IF w3.thrown THEN w3
                          ELSE [wb |-> [w3.wb EXCEPT !.m_isOpen = TRUE],
                                thrown |-> FALSE])))

\* Workbook::findSheet(name)
findSheet(wb, name) ==
    LET at == {i \in 1..Len(wb.m_sheets) : wb.m_sheets[i].name = name}
    IN IF at = {} THEN NullOpt ELSE Some(wb.m_sheets[CHOOSE i \in at : \A j \in at : i <= j])

\* OpcPackage::Impl::getContentTypes: [thrown, types]
getContentTypes(package) ==
    IF ~package.m_isOpen THEN [thrown |-> TRUE, types |-> {}]
    ELSE [thrown |-> FALSE, types |-> package.m_contentTypes]

\* Workbook::Impl::getSheets: [thrown, sheets]
getSheets(wb) ==
    IF ~wb.m_isOpen THEN [thrown |-> TRUE, sheets |-> <<>>]
    ELSE [thrown |-> FALSE, sheets |-> wb.m_sheets]

\* a mutation of getSheetCount: without the test of m_isOpen
getSheetCount_unguarded(wb) == Len(wb.m_sheets)

\* Workbook::Impl::getSheetCount
getSheetCount(wb) == IF ~wb.m_isOpen THEN 0 ELSE Len(wb.m_sheets)

\* Workbook::Impl::getProperties: [thrown, properties]
getProperties(wb) ==
    IF ~wb.m_isOpen THEN [thrown |-> TRUE, properties |-> WorkbookFresh.m_properties]
    ELSE [thrown |-> FALSE, properties |-> wb.m_properties]

(***************************************************************************)
(* The conversion (xlsxcsv::readSheetToCsv).                               *)
(***************************************************************************)
\* "\xEF\xBB\xBF"
BOM == <<ByteOf(239), ByteOf(187), ByteOf(191)>>

\* sharedConfig: a SharedStringsConfig with the mode the options ask for
SharedStringsConfigOf(options) ==
    [mode |-> CASE options.sharedStringsMode = "AUTO" -> "Auto"
                [] options.sharedStringsMode = "IN_MEMORY" -> "InMemory"
                [] OTHER -> "External",
     memoryThreshold |-> 60, maxStringLength |-> 1000, flattenRichText |-> TRUE]

\* StylesRegistry::parse(package): [reg, thrown]
StylesParsedFrom(reg, package, file, overrun) ==
    WithValue(ReadPart(package.m_zipReader, file, StylesPath, overrun), LAMBDA part :
        IF ~package.m_isOpen \/ part.thrown THEN [reg |-> StylesClosed(reg), thrown |-> TRUE]
        ELSE StylesParsed(reg, part.data))

\* SharedStringsProvider::parse(package): [p, thrown]
SstParsedFrom(p, package, file, overrun) ==
    WithValue(ReadPart(package.m_zipReader, file, SharedStringsPath, overrun), LAMBDA part :
        IF ~package.m_isOpen \/ part.thrown
        THEN [p |-> IF p.m_isOpen THEN SstClosed(p) ELSE p, thrown |-> TRUE]
        ELSE SstParsed(p, part.data, TRUE))

\* SheetStreamReader::Impl::parseSheet: [thrown, events]
parseSheet(package, file, sheetPath) ==
    LET fullPath == IF Len(sheetPath) >= Len(XlPrefix)
                       /\ SubSeq(sheetPath, 1, Len(XlPrefix)) = XlPrefix
                    THEN sheetPath ELSE XlPrefix \o sheetPath
    IN WithValue(readEntry(package.m_zipReader, file, fullPath), LAMBDA xmlData :
           IF ~package.m_isOpen \/ xmlData.thrown THEN [thrown |-> TRUE, events |-> <<>>]
           ELSE [thrown |-> FALSE, events |-> parseSheetData(xmlData.data)])

\* CsvRowCollectorImpl::handleError
handleError(c) == [c EXCEPT !.m_errorMessages = Append(@, "error")]

\* the handler's calls applied to the collector in order
RECURSIVE Collect(_, _, _)
Collect(c, env, events) ==
    IF events = <<>> THEN c
    ELSE LET ev == Head(events)
         IN Collect(CASE ev.e = "row" -> handleRow(c, env, ev.row).c
                      [] ev.e = "metadata" -> handleWorksheetMetadata(c, ev.metadata)
                      [] OTHER -> handleError(c),
                    env, Tail(events))

\* the sheet the selector names: by name, or by index with -1 for the first
SelectSheet(wb, sheetSelector) ==
    IF sheetSelector.byName THEN findSheet(wb, sheetSelector.name)
    ELSE IF sheetSelector.index = -1
    THEN IF wb.m_sheets # <<>> THEN Some(wb.m_sheets[1]) ELSE NullOpt
    ELSE IF sheetSelector.index >= 0 /\ sheetSelector.index < Len(wb.m_sheets)
    THEN Some(wb.m_sheets[sheetSelector.index + 1])
    ELSE NullOpt

\* the LF to CRLF conversion of the result
CrLf(text) == Concat([i \in 1..Len(text) |-> IF text[i] = LF THEN <<CR, LF>> ELSE <<text[i]>>])

Failed == [thrown |-> TRUE, csv |-> <<>>]

\* the text readSheetToCsv returns: the BOM and the newline conversion
CsvResult(csvOutput, options) ==
    LET withBom == IF options.includeBom THEN BOM \o csvOutput ELSE csvOutput
    IN IF options.newline = "CRLF" THEN CrLf(withBom) ELSE withBom

\* readSheetToCsv from the sheet selection on
ConvertSheet(package, file, workbook, stylesParse, sharedParse, sheetSelector, options) ==
    WithValue(SelectSheet(workbook, sheetSelector), LAMBDA targetSheet :
        IF ~targetSheet.has THEN Failed
        ELSE WithValue(parseSheet(package, file, targetSheet.value.target), LAMBDA parsed :
                 IF parsed.thrown THEN Failed
                 ELSE WithValue(Collect(CsvFresh(sharedParse.p.m_isOpen,
                                                 stylesParse.reg.m_isOpen,
                                                 workbook.m_properties.dateSystem,
                                                 Some(options)),
                                        [sst |-> sharedParse.p, styles |-> stylesParse.reg],
                                        parsed.events),
                                LAMBDA csvCollector :
                          IF csvCollector.m_errorMessages # <<>> THEN Failed
                          ELSE [thrown |-> FALSE,
                                csv |-> CsvResult(csvCollector.m_csvOutput, options)])))

\* readSheetToCsv(xlsxPath, sheetSelector, options), file being what is
\* stored at xlsxPath: [thrown, csv].  The limits built from the options are
\* a local that nothing reads.
readSheetToCsv(file, sheetSelector, options, overrun) ==
    LET limits == ZipSecurityLimits(options.maxEntries, options.maxEntrySize,
                                    options.maxTotalUncompressed)
    IN WithValue(OpcOpened(OpcFresh, file, overrun), LAMBDA package :
       IF package.thrown THEN Failed
       ELSE WithValue(WorkbookOpened(WorkbookFresh, package.package, file, overrun),
                      LAMBDA workbook :
       IF workbook.thrown THEN Failed
       ELSE WithValue(StylesParsedFrom(StylesFresh, package.package, file, overrun),
                      LAMBDA stylesParse :
            WithValue(SstParsedFrom(SstFresh(SharedStringsConfigOf(options)),
                                    package.package, file, overrun),
                      LAMBDA sharedParse :
            ConvertSheet(package.package, file, workbook.wb, stylesParse, sharedParse,
                         sheetSelector, options)))))

(***************************************************************************)
(* Inputs of the collector.                                                *)
(***************************************************************************)
CsvOptions(delimiter, includeHiddenRows, includeHiddenColumns, mergedHandling) ==
    [delimiter |-> delimiter, includeHiddenRows |-> includeHiddenRows,
     includeHiddenColumns |-> includeHiddenColumns, mergedHandling |-> mergedHandling]

\* every filter and merge setting with the comma; the other delimiters
\* (NUL stands for "not set") with nothing else switched on
CsvOptionsSet ==
    {Some(CsvOptions(",", hr, hc, mh)) :
        hr \in BOOLEAN, hc \in BOOLEAN, mh \in {"NONE", "PROPAGATE"}}
    \cup {Some(CsvOptions(d, TRUE, TRUE, "NONE")) : d \in {";", QUOTE, LF, CR, NUL}}
    \cup {NullOpt}

\* the options with quoteAll and dateMode set (CsvOptions::quoteAll and
\* CsvOptions::dateMode, bound to quote_all and date_mode), everything else
\* at its default
CsvOptionsWith(quoteAll, dateMode) ==
    [delimiter |-> ",", includeHiddenRows |-> TRUE, includeHiddenColumns |-> TRUE,
     mergedHandling |-> "NONE", quoteAll |-> quoteAll, dateMode |-> dateMode]
DateModes == {"ISO", "RAW"}

\* the workbook a collector is built for: date system, styles part (the
\* numFmtId of each <xf>), whether it is given a styles registry
CsvWorkbooks ==
    {[dateSystem |-> "Date1900", numFmtIds |-> <<0, 14>>, hasStyles |-> TRUE],
     [dateSystem |-> "Date1900", numFmtIds |-> <<14, 0>>, hasStyles |-> TRUE],
     [dateSystem |-> "Date1904", numFmtIds |-> <<0, 14>>, hasStyles |-> TRUE],
     [dateSystem |-> "Date1900", numFmtIds |-> <<0, 14>>, hasStyles |-> FALSE]}

\* the shared strings of that workbook: index 0 is "Due"
CsvSstInput ==
    [items |-> <<SiItem("t", <<"D", "u", "e">>, <<>>)>>, countAttr |-> Some(<<"1">>),
     present |-> TRUE, canCreate |-> TRUE]
CsvSstConfig ==
    [mode |-> "InMemory", memoryThreshold |-> 60, maxStringLength |-> 1000,
     flattenRichText |-> TRUE]

Serial44562 == 44562 * UnitsPerDay

\* what a cell of a row may hold: [type, styleIndex, value]
GridPayloads ==
    {[type |-> "String", styleIndex |-> 0, value |-> VText(<<"a">>)],
     [type |-> "SharedString", styleIndex |-> 0, value |-> VIndex(0)],
     [type |-> "Number", styleIndex |-> 0, value |-> VDouble(Serial44562)],
     [type |-> "Number", styleIndex |-> 1, value |-> VDouble(Serial44562)],
     [type |-> "Number", styleIndex |-> 0, value |-> VEmpty]}

CsvTexts ==
    {<<"a">>, <<",">>, <<";">>, <<QUOTE>>, <<LF>>, <<CR>>, <<QUOTE, ",">>, <<"a", QUOTE>>, <<>>}
TextPayloads == {[type |-> "String", styleIndex |-> 0, value |-> VText(t)] : t \in CsvTexts}

CellOf(rowNumber, column, p) == CellData(rowNumber, column, p.type, p.styleIndex, p.value)

\* rows of up to MaxCells cells in distinct columns, in any column order
DistinctColumns(cols) ==
    \A i \in 1..Len(cols) : \A j \in 1..Len(cols) : i # j => cols[i] # cols[j]
GridRows ==
    {RowData(1, FALSE, [i \in 1..Len(cp[1]) |-> CellOf(1, cp[1][i], cp[2][i])]) :
        cp \in {cp \in SeqsUpTo(1..MaxCol, MaxCells) \X SeqsUpTo(GridPayloads, MaxCells) :
                   Len(cp[1]) = Len(cp[2]) /\ DistinctColumns(cp[1])}}
\* the rows below the first, and hidden rows: one cell "a"
LowerRows ==
    {RowData(r, h, <<CellOf(r, col, [type |-> "String", styleIndex |-> 0,
                                     value |-> VText(<<"a">>)])>>) :
        r \in 1..MaxRowNumber, h \in BOOLEAN, col \in 1..MaxCol} 
\* rows of text cells in the leftmost columns
TextRows ==
    {RowData(1, FALSE, [i \in 1..Len(ps) |-> CellOf(1, i, ps[i])]) :
        ps \in SeqsUpTo(TextPayloads, MaxCells) \ {<<>>}}

CsvRows == GridRows \cup LowerRows \cup TextRows

CsvMetadata ==
    {WorksheetMetadata(<<>>, <<ColumnInfo(2, TRUE)>>),
     WorksheetMetadata(<<MergedCellRange(CellCoordinate(1, 1), CellCoordinate(2, 1))>>,
                       <<ColumnInfo(2, FALSE)>>),
     WorksheetMetadata(<<MergedCellRange(CellCoordinate(1, 2), CellCoordinate(1, 3))>>,
                       <<ColumnInfo(1, TRUE), ColumnInfo(3, TRUE)>>)}

(***************************************************************************)
(* Inputs of the sheet reader: a worksheet part is described by its rows,  *)
(* each a sequence of <c> elements, and optional <cols> and <mergeCells>.  *)
(*   kind "v"      <c r t s><v>x</v></c>      "vself"  <c r><v/></c>        *)
(*   kind "fv"     <c r><f>x</f><v>x</v></c>  "is"  <c r t><is><t>x</t></is></c> *)
(*   kind "cself"  <c r/>                                                   *)
(***************************************************************************)
MaxSheetRows == 2
MaxRowCells == 2

SheetCell(kind, t, style, x) == [kind |-> kind, t |-> t, style |-> style, x |-> x]
SheetCells ==
    {SheetCell("v", NullOpt, Some(<<"1">>), <<"5">>),
     SheetCell("v", NullOpt, NullOpt, <<"x">>),
     SheetCell("v", Some(<<"s">>), NullOpt, <<"1">>),
     SheetCell("v", Some(<<"b">>), NullOpt, <<"1">>),
     SheetCell("v", Some(<<"s", "t", "r">>), NullOpt, <<"x">>),
     SheetCell("vself", NullOpt, NullOpt, <<>>),
     SheetCell("fv", NullOpt, NullOpt, <<"7">>),
     SheetCell("is", Some(<<"i", "n", "l", "i", "n", "e", "S", "t", "r">>), NullOpt, <<"y">>),
     SheetCell("cself", NullOpt, NullOpt, <<>>)}

\* CellCoordinate::toReference
CellRef(row, column) == <<Letters[column]>> \o NatText(row)

CellNodes(cell, row, column) ==
    LET attrs == <<<<"r", CellRef(row, column)>>>>
                 \o (IF cell.t.has THEN <<<<"t", cell.t.value>>>> ELSE <<>>)
                 \o (IF cell.style.has THEN <<<<"s", cell.style.value>>>> ELSE <<>>)
    IN CASE cell.kind = "v" -> XElem("c", attrs, 3, XElem("v", <<>>, 4, XText(cell.x, 5)))
         [] cell.kind = "vself" -> XElem("c", attrs, 3, XEmpty("v", <<>>, 4))
         [] cell.kind = "fv" ->
               XElem("c", attrs, 3,
                     XElem("f", <<>>, 4, XText(cell.x, 5))
                     \o XElem("v", <<>>, 4, XText(cell.x, 5)))
         [] cell.kind = "is" ->
               XElem("c", attrs, 3,
                     XElem("is", <<>>, 4, XElem("t", <<>>, 5, XText(cell.x, 6))))
         [] cell.kind = "cself" -> XEmpty("c", attrs, 3)

\* the cells of a row take the columns 1, 2, .. in order
SheetRowNodes(row, rowNumber) ==
    LET attrs == <<<<"r", NatText(rowNumber)>>>>
                 \o (IF row.hidden THEN <<<<"hidden", <<"1">>>>>> ELSE <<>>)
    IN IF row.cells = <<>> THEN XEmpty("row", attrs, 2)
       ELSE XElem("row", attrs, 2,
                  Concat([j \in 1..Len(row.cells) |-> CellNodes(row.cells[j], rowNumber, j)]))

ColsNodes(cols) ==
    CASE cols = "none" -> <<>>
      [] cols = "hidden" ->
            XElem("cols", <<>>, 1,
                  XEmpty("col", <<<<"min", <<"2">>>>, <<"max", <<"2">>>>,
                                  <<"hidden", <<"1">>>>, <<"width", <<"9">>>>>>, 2))
      [] cols = "badwidth" ->
            XElem("cols", <<>>, 1,
                  XEmpty("col", <<<<"min", <<"1">>>>, <<"width", <<"w">>>>>>, 2))

MergeNodes(merges) ==
    IF merges
    THEN XElem("mergeCells", <<>>, 1,
               XEmpty("mergeCell", <<<<"ref", <<"A", "1", ":", "B", "1">>>>>>, 2))
    ELSE <<>>

SheetDoc(in) ==
    [nodes |-> XElem("worksheet", <<>>, 0,
                     ColsNodes(in.cols)
                     \o (IF in.rows = <<>> THEN XEmpty("sheetData", <<>>, 1)
                         ELSE XElem("sheetData", <<>>, 1,
                                    Concat([i \in 1..Len(in.rows) |->
                                               SheetRowNodes(in.rows[i], i)])))
                     \o MergeNodes(in.merges)),
     fault |-> in.fault, present |-> TRUE, empty |-> in.empty]

SheetRows == [hidden : BOOLEAN, cells : SeqsUpTo(SheetCells, MaxRowCells)]
VisibleSheetRows == {row \in SheetRows : ~row.hidden}
SheetFaults == {0, 4, 6}
SheetInputs ==
    [rows : {rows \in SeqsUpTo(SheetRows, MaxSheetRows) :
                \A i \in 2..Len(rows) : rows[i] \in VisibleSheetRows},
     cols : {"none"}, merges : {FALSE}, fault : {0}, empty : {FALSE}]
    \cup [rows : SeqsUpTo(VisibleSheetRows, 1), cols : {"none", "hidden", "badwidth"},
          merges : BOOLEAN, fault : SheetFaults, empty : {FALSE}]
    \cup [rows : {<<>>}, cols : {"none"}, merges : {FALSE}, fault : {0}, empty : {TRUE}]

NoSheet == [rows |-> <<>>, cols |-> "none", merges |-> FALSE, fault |-> 0, empty |-> TRUE]

\* the sheet reader, unused
SheetIdle ==
    /\ sheetIn = NoSheet
    /\ sheetOut = [op |-> "none", events |-> <<>>]

(***************************************************************************)
(* Inputs of a worksheet with a merged range: rows whose cells leave gaps, *)
(* a <mergeCells> section before or after <sheetData>.                     *)
(***************************************************************************)
MaxMergeRows == 2
MaxMergeCol == 3

\* the text of the cell at (row, column): the top-left cell of every range
\* of the model is A1
MergeCellText(row, column) == IF row = 1 /\ column = 1 THEN <<"y">> ELSE <<"z">>

\* a row is the ascending columns of its cells
MergeRows ==
    {cols \in SeqsUpTo(1..MaxMergeCol, MaxMergeCol) :
        \A j \in 1..(Len(cols) - 1) : cols[j] < cols[j + 1]}
MergeRefs ==
    {<<"A", "1", ":", "B", "1">>, <<"A", "1", ":", "A", "2">>, <<"A", "1", ":", "B", "2">>}

MergeRowNodes(cols, rowNumber) ==
    IF cols = <<>> THEN XEmpty("row", <<<<"r", NatText(rowNumber)>>>>, 2)
    ELSE XElem("row", <<<<"r", NatText(rowNumber)>>>>, 2,
               Concat([j \in 1..Len(cols) |->
                          CellNodes(SheetCell("is",
                                              Some(<<"i", "n", "l", "i", "n", "e", "S", "t", "r">>),
                                              NullOpt, MergeCellText(rowNumber, cols[j])),
                                    rowNumber, cols[j])]))

MergeSheetDoc(in) ==
    LET mergeCells == XElem("mergeCells", <<>>, 1,
                            XEmpty("mergeCell", <<<<"ref", in.ref>>>>, 2))
        sheetData == XElem("sheetData", <<>>, 1,
                           Concat([i \in 1..Len(in.rows) |-> MergeRowNodes(in.rows[i], i)]))
    IN [nodes |-> XElem("worksheet", <<>>, 0,
                        IF in.mergeCellsFirst THEN mergeCells \o sheetData
                        ELSE sheetData \o mergeCells),
        fault |-> 0, present |-> TRUE, empty |-> FALSE]

MergeSheetInputs ==
    [rows : SeqsUpTo(MergeRows, MaxMergeRows) \ {<<>>}, ref : MergeRefs,
     mergeCellsFirst : BOOLEAN]

(***************************************************************************)
(* Inputs of a worksheet whose references are not what a writer of         *)
(* standard files produces: a <row> whose r attribute is missing, zero,    *)
(* negative, no number or beyond the last row of a sheet, and <c> elements *)
(* whose r attribute is missing, malformed, out of column order, names     *)
(* another row, or lies beyond column XFD or row 1048576.                  *)
(***************************************************************************)
MaxRefCells == 2

RefRowAttrs ==
    {NullOpt, Some(<<"2">>), Some(<<"0">>), Some(<<"-", "1">>), Some(<<"x">>),
     Some(<<"1", "0", "4", "8", "5", "7", "7">>)}
RefCellAttrs ==
    {NullOpt, Some(<<"A", "2">>), Some(<<"B", "2">>), Some(<<"B", "3">>),
     Some(<<"a", "2">>), Some(<<"A", "0">>), Some(<<"X", "F", "E", "2">>),
     Some(<<"A", "1", "0", "4", "8", "5", "7", "7">>)}

\* <c r=".."><v>5</v></c>
RefCellNodes(ref) ==
    XElem("c", IF ref.has THEN <<<<"r", ref.value>>>> ELSE <<>>, 3,
          XElem("v", <<>>, 4, XText(<<"5">>, 5)))

RefRowNodes(in) ==
    LET attrs == IF in.row.has THEN <<<<"r", in.row.value>>>> ELSE <<>>
    IN IF in.cells = <<>> THEN XEmpty("row", attrs, 2)
       ELSE XElem("row", attrs, 2,
                  Concat([j \in 1..Len(in.cells) |-> RefCellNodes(in.cells[j])]))

RefSheetDoc(in) ==
    [nodes |-> XElem("worksheet", <<>>, 0, XElem("sheetData", <<>>, 1, RefRowNodes(in))),
     fault |-> 0, present |-> TRUE, empty |-> FALSE]

RefSheetInputs == [row : RefRowAttrs, cells : SeqsUpTo(RefCellAttrs, MaxRefCells)]

(***************************************************************************)
(* Inputs of a worksheet made of sections in any order: <cols> sections,   *)
(* <mergeCells> sections and <sheetData> with one row.                     *)
(*   "cols"      <cols><col min="1" max="2" hidden="1"/></cols>            *)
(*   "col3"      <cols><col min="3" max="3"/></cols>                       *)
(*   "nocols"    <cols/>                                                   *)
(*   "badwidth"  <cols><col min="1" width="w"/></cols>                     *)
(*   "merge"     <mergeCells><mergeCell ref="A1:B1"/></mergeCells>         *)
(*   "merges"    <mergeCells><mergeCell ref="B1:A1"/>                      *)
(*                           <mergeCell ref="C1:C2"/></mergeCells>         *)
(*   "row"       <sheetData><row r="1"><c r="A1"><v>5</v></c></row>        *)
(*               </sheetData>                                              *)
(***************************************************************************)
MaxSections == 3

SectionKinds == {"cols", "col3", "nocols", "badwidth", "merge", "merges", "row"}

SectionNodes(kind) ==
    CASE kind = "cols" ->
            XElem("cols", <<>>, 1,
                  XEmpty("col", <<<<"min", <<"1">>>>, <<"max", <<"2">>>>,
                                  <<"hidden", <<"1">>>>>>, 2))
      [] kind = "col3" ->
            XElem("cols", <<>>, 1,
                  XEmpty("col", <<<<"min", <<"3">>>>, <<"max", <<"3">>>>>>, 2))
      [] kind = "nocols" -> XEmpty("cols", <<>>, 1)
      [] kind = "badwidth" ->
            XElem("cols", <<>>, 1,
                  XEmpty("col", <<<<"min", <<"1">>>>, <<"width", <<"w">>>>>>, 2))
      [] kind = "merge" ->
            XElem("mergeCells", <<>>, 1,
                  XEmpty("mergeCell", <<<<"ref", <<"A", "1", ":", "B", "1">>>>>>, 2))
      [] kind = "merges" ->
            XElem("mergeCells", <<>>, 1,
                  XEmpty("mergeCell", <<<<"ref", <<"B", "1", ":", "A", "1">>>>>>, 2)
                  \o XEmpty("mergeCell", <<<<"ref", <<"C", "1", ":", "C", "2">>>>>>, 2))
      [] kind = "row" ->
            XElem("sheetData", <<>>, 1,
                  XElem("row", <<<<"r", <<"1">>>>>>, 2, RefCellNodes(Some(<<"A", "1">>))))

MetaSheetDoc(in) ==
    [nodes |-> XElem("worksheet", <<>>, 0,
                     Concat([i \in 1..Len(in.sections) |-> SectionNodes(in.sections[i])])),
     fault |-> in.fault, present |-> TRUE, empty |-> FALSE]

\* a fatal fault, if any, at the third node of the part
MetaFaults == {0, 3}
MetaSheetInputs == [sections : SeqsUpTo(SectionKinds, MaxSections), fault : MetaFaults]

(***************************************************************************)
(* Inputs of a worksheet with one cell A1: its t attribute, and either a   *)
(* <v> with a text or an <is> with <t> elements, directly or one in each   *)
(* of several rich-text runs:                                              *)
(*   <c r="A1" t=".."><v>x</v></c>                                         *)
(*   <c r="A1" t=".."><is><t>x1</t><t>x2</t></is></c>                      *)
(*   <c r="A1" t=".."><is><r><t>x1</t></r><r><t>x2</t></r></is></c>        *)
(***************************************************************************)
MaxRuns == 2

CellTypeAttrs ==
    {NullOpt, Some(<<"b">>), Some(<<"s", "t", "r">>),
     Some(<<"i", "n", "l", "i", "n", "e", "S", "t", "r">>)}
CellValueTexts == {<<>>, <<"1">>, <<"0">>, <<"2">>, <<"t", "r", "u", "e">>}
CellRunTexts == {<<"x">>, <<"y">>}
CellBodies ==
    [kind : {"v"}, x : CellValueTexts, texts : {<<>>}, rich : {FALSE}]
    \cup [kind : {"is"}, x : {<<>>}, texts : SeqsUpTo(CellRunTexts, MaxRuns), rich : BOOLEAN]

\* <t>x</t>, or <r><t>x</t></r>
InlineTextNodes(x, rich, depth) ==
    IF rich THEN XElem("r", <<>>, depth, XElem("t", <<>>, depth + 1, XText(x, depth + 2)))
    ELSE XElem("t", <<>>, depth, XText(x, depth + 1))

OneCellNodes(in) ==
    LET attrs == <<<<"r", <<"A", "1">>>>>>
                 \o (IF in.t.has THEN <<<<"t", in.t.value>>>> ELSE <<>>)
    IN XElem("c", attrs, 3,
             IF in.body.kind = "v" THEN XElem("v", <<>>, 4, XText(in.body.x, 5))
             ELSE XElem("is", <<>>, 4,
                        Concat([k \in 1..Len(in.body.texts) |->
                                   InlineTextNodes(in.body.texts[k], in.body.rich, 5)])))

OneCellSheetDoc(in) ==
    [nodes |-> XElem("worksheet", <<>>, 0,
                     XElem("sheetData", <<>>, 1,
                           XElem("row", <<<<"r", <<"1">>>>>>, 2, OneCellNodes(in)))),
     fault |-> 0, present |-> TRUE, empty |-> FALSE]

OneCellInputs == [t : CellTypeAttrs, body : CellBodies]

\* shared-string parts with rich text: an optional <t> and up to MaxRuns runs
MaxRichItems == 2
RichSiItems ==
    {SiItem("rich", x, runs) : x \in {<<>>, <<"a">>}, runs \in SeqsUpTo(CellRunTexts, MaxRuns)}
RichConfigs ==
    [mode : {"InMemory"}, memoryThreshold : MemoryThresholds,
     maxStringLength : {1000}, flattenRichText : BOOLEAN]
RichInputs ==
    [items : SeqsUpTo(RichSiItems, MaxRichItems), countAttr : {NullOpt},
     present : {TRUE}, canCreate : {TRUE}]

(***************************************************************************)
(* Inputs of the styles registry: xl/styles.xml with custom number formats,*)
(* a <borders> section in one of its written forms, and the <xf> list.     *)
(***************************************************************************)
MaxNumFmts == 2
MaxXfs == 2
NumFmtIdTexts == {<<"1", "4">>, <<"1", "6", "4">>}
FormatCodeTexts == {<<"y", "y", "y", "y", "-", "m", "m", "-", "d", "d">>, <<"0", ".", "0", "0">>, <<"h", ":", "m", "m">>}
NumFmtChoices == [numFmtId : NumFmtIdTexts, formatCode : FormatCodeTexts]
\* no <borders>; <borders><border><left/></border></borders>; <borders/>;
\* <borders><border/></borders>
BordersForms == {"none", "full", "empty", "item"}
XfNumFmtIds == {NullOpt, Some(<<"1", "4">>), Some(<<"3", "8">>), Some(<<"1", "6", "4">>), Some(<<"2", "0", "0">>)}

BordersNodes(form) ==
    IF form = "none" THEN <<>>
    ELSE IF form = "empty" THEN XEmpty("borders", <<>>, 1)
    ELSE IF form = "item" THEN XElem("borders", <<>>, 1, XEmpty("border", <<>>, 2))
    ELSE XElem("borders", <<>>, 1, XElem("border", <<>>, 2, XEmpty("left", <<>>, 3)))

StyleSheetDoc(in) ==
    [nodes |-> XElem("styleSheet", <<>>, 0,
           (IF in.numFmts = <<>> THEN <<>>
            ELSE XElem("numFmts", <<>>, 1,
                       Concat([i \in 1..Len(in.numFmts) |->
                                  XEmpty("numFmt",
                                         <<<<"numFmtId", in.numFmts[i].numFmtId>>,
                                           <<"formatCode", in.numFmts[i].formatCode>>>>, 2)])))
           \o BordersNodes(in.borders)
           \o XElem("cellXfs", <<>>, 1,
                    Concat([i \in 1..Len(in.xfs) |->
                               XEmpty("xf", IF in.xfs[i].has
                                            THEN <<<<"numFmtId", in.xfs[i].value>>>>
                                            ELSE <<>>, 2)]))),
     fault |-> 0, present |-> TRUE]

StyleSheetInputs ==
    [numFmts : SeqsUpTo(NumFmtChoices, MaxNumFmts), borders : BordersForms,
     xfs : SeqsUpTo(XfNumFmtIds, MaxXfs)]

(***************************************************************************)
(* Inputs of the ZIP reader.                                               *)
(***************************************************************************)
MaxZipEntries == 2

LongName(n) == [i \in 1..n |-> "a"]
\* stored names: plain, traversal, absolute, backslashes with and without a
\* traversal, an embedded NUL, as long as the name buffer, longer than the
\* path limit
ZipNames ==
    {<<"a">>, <<".", ".", "/", "x">>, <<"/", "e">>, <<"b", BACKSLASH, ".", ".", BACKSLASH, "c">>,
     <<"b", BACKSLASH, "c">>,
     <<"n", NUL, "z">>, LongName(FilenameBufferSize), LongName(MaxPathLength + 1)}
\* the paths a caller asks for
ZipProbes ==
    (ZipNames \ {LongName(FilenameBufferSize)})
    \cup {<<"e">>, <<"n">>, <<"b", "/", ".", ".", "/", "c">>, <<"b", "/", "c">>}
\* what the stack holds behind the name buffer, up to its first NUL; it is
\* read only when a stored name fills the buffer
ZipOverruns(file) ==
    IF \E i \in 1..Len(file.entries) : Len(file.entries[i].name) >= FilenameBufferSize
    THEN {<<>>, <<"g">>}
    ELSE {<<>>}

ZipStored(name, size, encrypted) ==
    [name |-> name, size |-> size, encrypted |-> encrypted, data |-> <<"d">>]
\* the entry "a" comes small, oversized and encrypted; a traversal name also
\* oversized; every other name small
ZipStoredEntries ==
    {ZipStored(<<"a">>, 1, FALSE), ZipStored(<<"a">>, 3, FALSE), ZipStored(<<"a">>, 1, TRUE),
     ZipStored(<<".", ".", "/", "x">>, 3, FALSE)}
    \cup {ZipStored(name, 1, FALSE) : name \in ZipNames \ {<<"a">>}}
ShortZipEntries == {e \in ZipStoredEntries : Len(e.name) < FilenameBufferSize}
\* archives of short names, and archives with one long name at the end of
\* entries named "a"
ZipFiles ==
    [exists : {TRUE}, readable : {TRUE}, entries : SeqsUpTo(ShortZipEntries, MaxZipEntries)]
    \cup [exists : {TRUE}, readable : {TRUE},
          entries : {front \o <<long>> :
                        front \in SeqsUpTo({e \in ZipStoredEntries : e.name = <<"a">>},
                                           MaxZipEntries - 1),
                        long \in ZipStoredEntries \ ShortZipEntries}]
    \cup {NoArchive, [exists |-> TRUE, readable |-> FALSE, entries |-> <<>>]}
\* limits under which an entry of size 3 is oversized and two of them exceed
\* the total
ZipLimitsSet == {ZipSecurityLimits(2, 2, 4)}

NoListing == [has |-> FALSE, thrown |-> FALSE, entries |-> <<>>]
ZipOutcome(op, path, thrown, found, data, entries, listed, listedBefore) ==
    [op |-> op, path |-> path, thrown |-> thrown, found |-> found, data |-> data,
     entries |-> entries, listed |-> listed, listedBefore |-> listedBefore]
NoZipCall == ZipOutcome("none", <<>>, FALSE, FALSE, <<>>, <<>>, NoListing, NoListing)

\* the ZIP reader, unused
ZipIdle ==
    /\ zipIn = NoArchive
    /\ zip = ZipFresh(DefaultZipSecurityLimits)
    /\ zipOut = NoZipCall

(***************************************************************************)
(* Inputs of the conversion: a package of one worksheet, with a fault in   *)
(* at most one of its parts.                                               *)
(***************************************************************************)
WorkbookPath ==
    <<"x", "l", "/", "w", "o", "r", "k", "b", "o", "o", "k", ".", "x", "m", "l">>
SheetTarget ==
    <<"w", "o", "r", "k", "s", "h", "e", "e", "t", "s", "/", "s", "h", "e", "e", "t", "1",
      ".", "x", "m", "l">>

PartDoc(nodes) == [nodes |-> nodes, fault |-> 0, present |-> TRUE]

ContentTypesDoc ==
    PartDoc(XElem("Types", <<>>, 0,
                  XEmpty("Default", <<<<"Extension", <<"x", "m", "l">>>>,
                                      <<"ContentType", "application/xml">>>>, 1)
                  \o XEmpty("Override", <<<<"PartName", <<SLASH>> \o WorkbookPath>>,
                                          <<"ContentType", "workbook">>>>, 1)))
MainRelsDoc ==
    PartDoc(XElem("Relationships", <<>>, 0,
                  XEmpty("Relationship", <<<<"Id", "rId2">>, <<"Type", CorePropertiesType>>,
                                           <<"Target", <<"d">>>>>>, 1)
                  \o XEmpty("Relationship", <<<<"Id", "rId1">>, <<"Type", OfficeDocumentType>>,
                                              <<"Target", WorkbookPath>>>>, 1)))
WorkbookDoc(date1904) ==
    PartDoc(XElem("workbook", <<>>, 0,
                  (IF date1904 THEN XEmpty("workbookPr", <<<<"date1904", <<"1">>>>>>, 1)
                   ELSE XEmpty("workbookPr", <<>>, 1))
                  \o XElem("sheets", <<>>, 1,
                           XEmpty("sheet", <<<<"name", "Sheet1">>, <<"sheetId", <<"1">>>>,
                                            <<"r:id", "rId1">>>>, 2))))
WorkbookRelsDoc ==
    PartDoc(XElem("Relationships", <<>>, 0,
                  XEmpty("Relationship", <<<<"Id", "rId1">>, <<"Type", WorksheetType>>,
                                           <<"Target", SheetTarget>>>>, 1)))

ConvParts == {"contentTypes", "rels", "workbook", "workbookRels", "styles", "sharedStrings",
              "sheet"}
\* a fatal fault after the first node of the part
Faulted(doc, part, fault) == IF fault = part THEN [doc EXCEPT !.fault = 2] ELSE doc

\* the rows of the worksheet: a styled number and a shared string; an inline
\* string; no row
ConvSheets ==
    {<<[hidden |-> FALSE,
        cells |-> <<SheetCell("v", NullOpt, Some(<<"1">>), <<"5">>),
                    SheetCell("v", Some(<<"s">>), NullOpt, <<"0">>)>>]>>,
     <<[hidden |-> FALSE,
        cells |-> <<SheetCell("is", Some(<<"i", "n", "l", "i", "n", "e", "S", "t", "r">>),
                              NullOpt, <<"y">>)>>]>>,
     <<>>}

\* the package: entries of size 1 but for the worksheet
PackageFile(in) ==
    [exists |-> TRUE, readable |-> TRUE,
     entries |->
        <<[name |-> ContentTypesPath, size |-> 1, encrypted |-> FALSE,
           data |-> Faulted(ContentTypesDoc, "contentTypes", in.fault)],
          [name |-> MainRelsPath, size |-> 1, encrypted |-> FALSE,
           data |-> Faulted(MainRelsDoc, "rels", in.fault)],
          [name |-> WorkbookPath, size |-> 1, encrypted |-> FALSE,
           data |-> Faulted(WorkbookDoc(in.date1904), "workbook", in.fault)],
          [name |-> WorkbookRelsPath, size |-> 1, encrypted |-> FALSE,
           data |-> Faulted(WorkbookRelsDoc, "workbookRels", in.fault)]>>
        \o (IF in.hasStyles
            THEN <<[name |-> StylesPath, size |-> 1, encrypted |-> FALSE,
                    data |-> Faulted(StylesDoc(<<0, 14>>), "styles", in.fault)]>>
            ELSE <<>>)
        \o (IF in.hasSharedStrings
            THEN <<[name |-> SharedStringsPath, size |-> 1, encrypted |-> FALSE,
                    data |-> Faulted(SstPart(CsvSstInput), "sharedStrings", in.fault)]>>
            ELSE <<>>)
        \o <<[name |-> XlPrefix \o SheetTarget, size |-> in.sheetSize, encrypted |-> FALSE,
              data |-> Faulted(SheetDoc([rows |-> in.rows, cols |-> "none", merges |-> FALSE,
                                          fault |-> 0, empty |-> FALSE]),
                               "sheet", in.fault)]>>]

ConvPackages ==
    {in \in [fault : ConvParts \cup {"none"}, date1904 : BOOLEAN, hasStyles : BOOLEAN,
             hasSharedStrings : BOOLEAN, sheetSize : {1, 2}, rows : ConvSheets] :
        /\ in.fault = "styles" => in.hasStyles
        /\ in.fault = "sharedStrings" => in.hasSharedStrings
        /\ in.date1904 => in.fault = "none" /\ in.sheetSize = 1}

\* the limits of the options: the defaults; fewer entries than every
\* package has; an entry size below the large worksheet; a total below every
\* package
ConvLimits ==
    {DefaultZipSecurityLimits, ZipSecurityLimits(4, 256, 2048),
     ZipSecurityLimits(10000, 1, 2048), ZipSecurityLimits(10000, 256, 3)}

ConvOptions ==
    {[delimiter |-> ",", includeHiddenRows |-> TRUE, includeHiddenColumns |-> TRUE,
      mergedHandling |-> "NONE", includeBom |-> bom, newline |-> nl,
      sharedStringsMode |-> "IN_MEMORY", maxEntries |-> l.maxEntries,
      maxEntrySize |-> l.maxEntrySize, maxTotalUncompressed |-> l.maxTotalUncompressed] :
        bom \in BOOLEAN, nl \in {"LF", "CRLF"}, l \in ConvLimits}

SheetSelector(byName, name, index) == [byName |-> byName, name |-> name, index |-> index]
ConvSelectors ==
    {SheetSelector(FALSE, "", -1), SheetSelector(FALSE, "", 0), SheetSelector(FALSE, "", 1),
     SheetSelector(TRUE, "Sheet1", 0), SheetSelector(TRUE, "Data", 0)}

ConvInputs ==
    {in \in [package : ConvPackages, sheetSelector : ConvSelectors, options : ConvOptions] :
        \/ in.sheetSelector.index = -1
        \/ in.package.fault = "none" /\ in.package.sheetSize = 1}

NoConversionInput ==
    [package |-> [fault |-> "none", date1904 |-> FALSE, hasStyles |-> FALSE,
                  hasSharedStrings |-> FALSE, sheetSize |-> 1, rows |-> <<>>],
     sheetSelector |-> SheetSelector(FALSE, "", -1),
     options |-> CHOOSE o \in ConvOptions :
                    /\ ~o.includeBom /\ o.newline = "LF"
                    /\ o.maxEntries = DefaultZipSecurityLimits.maxEntries
                    /\ o.maxEntrySize = DefaultZipSecurityLimits.maxEntrySize
                    /\ o.maxTotalUncompressed = DefaultZipSecurityLimits.maxTotalUncompressed]
NoConversion == [op |-> "none", thrown |-> FALSE, csv |-> <<>>]

(***************************************************************************)
(* Inputs of a conversion of texts with line breaks: a worksheet of one    *)
(* row of inline strings, converted with either newline option.            *)
(***************************************************************************)
MaxNewlineCells == 2
NewlineTexts == {<<"y">>, <<"a", LF, "b">>, <<"a", CR, "b">>, <<LF>>}
NewlineSheets ==
    {<<[hidden |-> FALSE,
        cells |-> [i \in 1..Len(texts) |->
                      SheetCell("is", Some(<<"i", "n", "l", "i", "n", "e", "S", "t", "r">>),
                                NullOpt, texts[i])]]>> :
        texts \in SeqsUpTo(NewlineTexts, MaxNewlineCells) \ {<<>>}}
NewlineInputs ==
    {[package |-> [fault |-> "none", date1904 |-> FALSE, hasStyles |-> FALSE,
                   hasSharedStrings |-> FALSE, sheetSize |-> 1, rows |-> rows],
      sheetSelector |-> SheetSelector(FALSE, "", -1),
      options |-> o] :
        rows \in NewlineSheets,
        o \in {o \in ConvOptions :
                  /\ o.maxEntries = DefaultZipSecurityLimits.maxEntries
                  /\ o.maxEntrySize = DefaultZipSecurityLimits.maxEntrySize
                  /\ o.maxTotalUncompressed = DefaultZipSecurityLimits.maxTotalUncompressed}}

\* the conversion, unused
(***************************************************************************)
(* Conversions in several threads.  A date-styled cell is converted in     *)
(* three steps around the one struct tm that std::gmtime owns for the      *)
(* whole process: gmtime fills it and returns its address, the caller      *)
(* overrides its time fields, std::put_time reads it.                      *)
(***************************************************************************)
Threads == {1, 2}

Tm(year, month, day, hour, min, sec) ==
    [year |-> year, month |-> month, day |-> day, hour |-> hour, min |-> min, sec |-> sec]
\* the buffer before any call of gmtime
TmZero == Tm(0, 0, 0, 0, 0, 0)

\* convertExcelSerial up to the call of gmtime: the serial after the
\* adjustment for the date system and the phantom leap day
AdjustedSerial(q, dateSystem) ==
    LET a1 == IF dateSystem = "Date1904" THEN q + EXCEL_EPOCH_1904 * UnitsPerDay ELSE q
    IN IF dateSystem = "Date1900" /\ q >= 60 * UnitsPerDay THEN a1 - UnitsPerDay ELSE a1

\* std::gmtime(&timeT): the broken-down time of
\* secondsSinceEpoch = daysSinceUnixEpoch * SECONDS_PER_DAY
gmtime(q, dateSystem) ==
    LET adjustedSerial == AdjustedSerial(q, dateSystem)
        daysSinceUnixEpoch == adjustedSerial - DAYS_BETWEEN_1899_AND_1970 * UnitsPerDay
        civil == CivilFromDays(daysSinceUnixEpoch \div UnitsPerDay)
        secondOfDay == ((daysSinceUnixEpoch % UnitsPerDay) * 86400) \div UnitsPerDay
    IN Tm(civil.year, civil.month, civil.day,
          secondOfDay \div 3600, (secondOfDay \div 60) % 60, secondOfDay % 60)

\* tm->tm_hour = hours; tm->tm_min = minutes; tm->tm_sec = seconds
OverrideTime(tm, q, dateSystem) ==
    LET f == AdjustedSerial(q, dateSystem) % UnitsPerDay
    IN [tm EXCEPT !.hour = (f * 24) \div UnitsPerDay,
                  !.min = ((f * 1440) \div UnitsPerDay) % 60,
                  !.sec = ((f * 86400) \div UnitsPerDay) % 60]

\* the std::put_time calls, on the struct tm as it is when they run
PutTime(tm, q, dateSystem) ==
    LET f == AdjustedSerial(q, dateSystem) % UnitsPerDay
        hasDatePart == f * 1000 < 999 * UnitsPerDay
        hasTimePart == f * 1000 > UnitsPerDay
    IN IF hasDatePart /\ hasTimePart
       THEN DateText(tm) \o <<"T">> \o TimeText(tm.hour, tm.min, tm.sec)
       ELSE IF hasTimePart THEN TimeText(tm.hour, tm.min, tm.sec)
       ELSE DateText(tm)

\* the date-styled cell each thread's conversion is at: serials in
\* 1/UnitsPerDay, a date, a date with a time, a time of day, and zero
ThreadSerials == {0, 2, 40 * UnitsPerDay, 61 * UnitsPerDay + 2}
ThreadJobs == [serial : ThreadSerials, dateSystem : {"Date1900", "Date1904"}]
ThreadAt(job, pc, out) == [job |-> job, pc |-> pc, out |-> out]

ThreadsIdle ==
    /\ gmtimeTm = TmZero
    /\ threads = [t \in Threads |-> ThreadAt([serial |-> 0, dateSystem |-> "Date1900"],
                                             "idle", <<>>)]

(***************************************************************************)
(* Shared-string providers that spill to one temporary directory.  A       *)
(* provider names its file after its own address:                          *)
(* turboxl_strings_<address of the Impl>.tmp.                              *)
(***************************************************************************)
Providers == {1, 2}
Processes == {1, 2}
\* the addresses an Impl may be constructed at
Addresses == {1, 2}
\* the operations of a behaviour, over all providers
MaxSpillOps == 4

\* the directory: for each file name, the provider whose open() created or
\* truncated the file last (as a set of one), NoFile when there is no such file
NoFile == {}
diskFilePath(address) == address

SpillConfigs ==
    {[mode |-> m, memoryThreshold |-> 60, maxStringLength |-> 1000, flattenRichText |-> TRUE] :
        m \in {"External", "Auto"}}
\* parts of one and of two <si>: Auto spills from two <si> on
SpillParts ==
    {SstDoc(items, NullOpt) :
        items \in {<<SiItem("t", <<"a">>, <<>>)>>,
                   <<SiItem("t", <<"a">>, <<>>), SiItem("t", <<"a">>, <<>>)>>}}

ProviderAt(process, address, p, last, ops) ==
    [process |-> process, address |-> address, p |-> p, last |-> last, ops |-> ops]

\* the provider i as its next operation finds it: whether its file exists is
\* read from the directory
ProviderNow(i) ==
    [providers[i].p EXCEPT !.fileExists = tmpFiles[diskFilePath(providers[i].address)] # NoFile]

\* the directory after provider i went from before to after: open() with
\* std::ios::trunc takes the file over, std::filesystem::remove deletes it
Directory(i, before, after) ==
    LET path == diskFilePath(providers[i].address)
    IN IF ~before.streamOpen /\ after.streamOpen THEN [tmpFiles EXCEPT ![path] = {i}]
       ELSE IF before.fileExists /\ ~after.fileExists THEN [tmpFiles EXCEPT ![path] = NoFile]
       ELSE tmpFiles

SpillIdle ==
    /\ tmpFiles = [path \in Addresses |-> NoFile]
    /\ providers = [i \in Providers |-> ProviderAt(1, i, SstFresh(CsvSstConfig), "none", 0)]

(***************************************************************************)
(* A ZipReader, an OpcPackage and a Workbook that are opened and closed    *)
(* in any order; the workbook is opened on the package.                    *)
(***************************************************************************)
\* an archive of one small entry, one whose entries are too large in total,
\* a missing file and an unreadable one
LifeZipFiles ==
    {[exists |-> TRUE, readable |-> TRUE, entries |-> <<ZipStored(<<"a">>, 1, FALSE)>>],
     [exists |-> TRUE, readable |-> TRUE,
      entries |-> <<ZipStored(<<"a">>, 3, FALSE), ZipStored(<<"a">>, 3, FALSE)>>],
     NoArchive, [exists |-> TRUE, readable |-> FALSE, entries |-> <<>>]}
\* packages with a fault in one of the parts that open() reads, or in none,
\* and a missing file
LifePackageFiles ==
    {PackageFile([fault |-> fault, date1904 |-> d, hasStyles |-> FALSE,
                  hasSharedStrings |-> FALSE, sheetSize |-> 1, rows |-> <<>>]) :
        fault \in {"none", "contentTypes", "rels", "workbook", "workbookRels"},
        d \in {FALSE}}
    \cup {NoArchive}

\* the sheets a workbook that is not open may have gathered
MaxLifeSheets == 2

\* the objects, the file each was last opened on, and for each whether its
\* most recent open succeeded with no close after it
LifeFresh ==
    [z |-> ZipFresh(CHOOSE limits \in ZipLimitsSet : TRUE), zFile |-> NoArchive,
     zOpened |-> FALSE,
     package |-> OpcFresh, packageFile |-> NoArchive, packageOpened |-> FALSE,
     wb |-> WorkbookFresh, wbOpened |-> FALSE]

LifeIdle == life = LifeFresh

(***************************************************************************)
(* Packages whose _rels/.rels and xl/_rels/workbook.xml.rels vary.         *)
(***************************************************************************)
MaxRels == 3

RelIds == {"rId1", "rId2", "rId3"}
RelTypes == {OfficeDocumentType, ExtendedPropertiesType, CorePropertiesType}
\* the Target of the relationship at position i of _rels/.rels
RelTarget(i) == <<"p", Digit(i)>>
\* _rels/.rels as the sequence of its <Relationship>: [id, type]
RelsSeqs == SeqsUpTo([id : RelIds, type : RelTypes], MaxRels)
StandardRels ==
    <<[id |-> "rId2", type |-> CorePropertiesType], [id |-> "rId1", type |-> OfficeDocumentType]>>

RECURSIVE RelNodes(_, _)
RelNodes(rels, i) ==
    IF i > Len(rels) THEN <<>>
    ELSE XEmpty("Relationship", <<<<"Id", rels[i].id>>, <<"Type", rels[i].type>>,
                                  <<"Target", RelTarget(i)>>>>, 1)
         \o RelNodes(rels, i + 1)
RelsDoc(rels) == PartDoc(XElem("Relationships", <<>>, 0, RelNodes(rels, 1)))

\* the Target of the worksheet relationship in xl/_rels/workbook.xml.rels:
\* the stored part, empty, a part that is not stored, the stored part named
\* from the root of the package
MissingSheetTarget == <<"w", "o", "r", "k", "s", "h", "e", "e", "t", "s", "/", "m">>
SheetTargets ==
    {SheetTarget, <<>>, MissingSheetTarget, <<SLASH>> \o XlPrefix \o SheetTarget}
SheetRelsDoc(target) ==
    PartDoc(XElem("Relationships", <<>>, 0,
                  XEmpty("Relationship", <<<<"Id", "rId1">>, <<"Type", WorksheetType>>,
                                           <<"Target", target>>>>, 1)))

\* [rels, standard, sheetTarget]: a package with any _rels/.rels, or the
\* standard one (the workbook at xl/workbook.xml) with any sheet target
PkgInputs ==
    [rels : RelsSeqs, standard : {FALSE}, sheetTarget : {SheetTarget}]
    \cup [rels : {StandardRels}, standard : {TRUE}, sheetTarget : SheetTargets]

PkgFile(in) ==
    LET base == PackageFile([fault |-> "none", date1904 |-> FALSE, hasStyles |-> FALSE,
                             hasSharedStrings |-> FALSE, sheetSize |-> 1, rows |-> <<>>])
    IN [base EXCEPT !.entries[2].data = IF in.standard THEN @ ELSE RelsDoc(in.rels),
                    !.entries[4].data = SheetRelsDoc(in.sheetTarget)]

NoPkgCall == [op |-> "none", thrown |-> FALSE, path |-> <<>>]
PkgFresh(in) == [in |-> in, package |-> OpcFresh, wb |-> WorkbookFresh, out |-> NoPkgCall]
PkgIdle ==
    pkg = PkgFresh([rels |-> StandardRels, standard |-> TRUE, sheetTarget |-> SheetTarget])

WorldIdle == ThreadsIdle /\ SpillIdle /\ LifeIdle /\ PkgIdle

ConvIdle ==
    /\ convIn = NoConversionInput
    /\ convOut = NoConversion

NoCall == [op |-> "none", row |-> RowData(0, FALSE, <<>>), before |-> <<>>, fields |-> <<>>]

\* ---- the provider's operations ----
SstInitWith(ins, configs) ==
    /\ sstIn \in ins
    /\ \E c \in configs : sst = SstFresh(c)
    /\ sstOut = [op |-> "none", thrown |-> FALSE]

\* the collector and the styles registry, constructed and unused
CsvIdle ==
    /\ stylesIn = <<>>
    /\ stylesReg = StylesFresh
    /\ csv = CsvFresh(FALSE, FALSE, "Date1900", NullOpt)
    /\ csvLast = NoCall

\* parse(package)
SstParse ==
    /\ LET r == SstParsed(sst, SstPart(sstIn), sstIn.canCreate)
       IN /\ sst' = r.p
          /\ sstOut' = [op |-> "parse", thrown |-> r.thrown]
    /\ UNCHANGED <<sstIn, csvVars, sheetVars, zipVars, convVars, worldVars>>

\* close()
SstClose ==
    /\ sstOut.op # "none"
    /\ sst' = SstClosed(sst)
    /\ sstOut' = [op |-> "close", thrown |-> FALSE]
    /\ UNCHANGED <<sstIn, csvVars, sheetVars, zipVars, convVars, worldVars>>

\* ---- the collector's operations ----
\* a collector built as readSheetToCsv builds it: the shared strings and
\* the styles are parsed first
CsvInit ==
    /\ sstIn = CsvSstInput
    /\ sst = SstParsed(SstFresh(CsvSstConfig), SstPart(CsvSstInput), TRUE).p
    /\ sstOut = [op |-> "parse", thrown |-> FALSE]
    /\ \E w \in CsvWorkbooks, o \in CsvOptionsSet :
          /\ stylesIn = w.numFmtIds
          /\ stylesReg = StylesParsed(StylesFresh, StylesDoc(w.numFmtIds)).reg
          /\ csv = CsvFresh(TRUE, w.hasStyles, w.dateSystem, o)
    /\ csvLast = NoCall
    /\ SheetIdle
    /\ ZipIdle
    /\ ConvIdle
    /\ WorldIdle

\* a collector built with quoteAll and dateMode chosen by the caller
OptInit ==
    /\ sstIn = CsvSstInput
    /\ sst = SstParsed(SstFresh(CsvSstConfig), SstPart(CsvSstInput), TRUE).p
    /\ sstOut = [op |-> "parse", thrown |-> FALSE]
    /\ stylesIn = <<0, 14>>
    /\ stylesReg = StylesParsed(StylesFresh, StylesDoc(<<0, 14>>)).reg
    /\ \E quoteAll \in BOOLEAN, dateMode \in DateModes :
          csv = CsvFresh(TRUE, TRUE, "Date1900", Some(CsvOptionsWith(quoteAll, dateMode)))
    /\ csvLast = NoCall
    /\ SheetIdle
    /\ ZipIdle
    /\ ConvIdle
    /\ WorldIdle

\* handleRow(row)
CsvHandleRow ==
    /\ Len(csv.m_csvOutput) < MaxOut
    /\ \E row \in CsvRows :
          LET r == handleRow(csv, [sst |-> sst, styles |-> stylesReg], row)
          IN /\ csv' = r.c
             /\ csvLast' = [op |-> "row", row |-> row, before |-> csv.m_csvOutput,
                            fields |-> r.fields]
    /\ UNCHANGED <<sstVars, stylesIn, stylesReg, sheetVars, zipVars, convVars, worldVars>>

\* handleWorksheetMetadata(metadata)
CsvHandleWorksheetMetadata ==
    /\ Len(csv.m_csvOutput) < MaxOut
    /\ \E metadata \in CsvMetadata :
          /\ csv' = handleWorksheetMetadata(csv, metadata)
          /\ csvLast' = [NoCall EXCEPT !.op = "metadata", !.before = csv.m_csvOutput]
    /\ UNCHANGED <<sstVars, stylesIn, stylesReg, sheetVars, zipVars, convVars, worldVars>>

\* ---- the sheet reader's operation ----
SheetInit ==
    /\ SstInitWith({[items |-> <<>>, countAttr |-> NullOpt, present |-> FALSE,
                     canCreate |-> TRUE]}, {CsvSstConfig})
    /\ CsvIdle
    /\ sheetIn \in SheetInputs
    /\ sheetOut = [op |-> "none", events |-> <<>>]
    /\ ZipIdle
    /\ ConvIdle
    /\ WorldIdle

\* parseSheetData(xmlData, handler, ..)
SheetParse ==
    /\ sheetOut.op = "none"
    /\ sheetOut' = [op |-> "parse", events |-> parseSheetData(SheetDoc(sheetIn))]
    /\ UNCHANGED <<sstVars, csvVars, sheetIn, zipVars, convVars, worldVars>>

\* ---- the ZIP reader's operations ----
ZipInit ==
    /\ SstInitWith({[items |-> <<>>, countAttr |-> NullOpt, present |-> FALSE,
                     canCreate |-> TRUE]}, {CsvSstConfig})
    /\ CsvIdle
    /\ SheetIdle
    /\ zipIn \in ZipFiles
    /\ \E limits \in ZipLimitsSet : zip = ZipFresh(limits)
    /\ zipOut = NoZipCall
    /\ ConvIdle
    /\ WorldIdle

\* ZipReader::open
ZipOpen ==
    /\ LET r == ZipOpened(zip, zipIn)
       IN /\ zip' = r.z
          /\ zipOut' = [NoZipCall EXCEPT !.op = "open", !.thrown = r.thrown]
    /\ UNCHANGED <<sstVars, csvVars, sheetVars, zipIn, convVars, worldVars>>

\* ZipReader::close
ZipClose ==
    /\ zipOut.op # "none"
    /\ zip' = ZipClosed(zip)
    /\ zipOut' = [NoZipCall EXCEPT !.op = "close"]
    /\ UNCHANGED <<sstVars, csvVars, sheetVars, zipIn, convVars, worldVars>>

\* ZipReader::listEntries; listed and listedBefore keep the outcomes of the
\* last two calls made since the archive was opened
ZipListEntries ==
    /\ \E overrun \in ZipOverruns(zipIn) :
          LET r == listEntries(zip, zipIn, overrun)
          IN /\ zip' = r.z
             /\ zipOut' = ZipOutcome("list", <<>>, r.thrown, FALSE, <<>>, r.entries,
                                     IF zip.m_isOpen
                                     THEN [has |-> TRUE, thrown |-> r.thrown,
                                           entries |-> r.entries]
                                     ELSE zipOut.listed,
                                     zipOut.listed)
    /\ UNCHANGED <<sstVars, csvVars, sheetVars, zipIn, convVars, worldVars>>

\* ZipReader::hasEntry
ZipHasEntry ==
    /\ \E path \in ZipProbes, overrun \in ZipOverruns(zipIn) :
          LET r == hasEntry(zip, zipIn, path, overrun)
          IN /\ zip' = r.z
             /\ zipOut' = ZipOutcome("has", path, r.thrown, r.found, <<>>, <<>>,
                                     zipOut.listed, zipOut.listedBefore)
    /\ UNCHANGED <<sstVars, csvVars, sheetVars, zipIn, convVars, worldVars>>

\* ZipReader::readEntry
ZipReadEntry ==
    /\ \E path \in ZipProbes :
          LET r == readEntry(zip, zipIn, path)
          IN zipOut' = ZipOutcome("read", path, r.thrown, FALSE, r.data, <<>>,
                                  zipOut.listed, zipOut.listedBefore)
    /\ UNCHANGED <<sstVars, csvVars, sheetVars, zipIn, zip, convVars, worldVars>>

\* ---- specifications ----
\* ---- a worksheet parsed into the collector ----
MergeInit ==
    /\ SstInitWith({[items |-> <<>>, countAttr |-> NullOpt, present |-> FALSE,
                     canCreate |-> TRUE]}, {CsvSstConfig})
    /\ stylesIn = <<>>
    /\ stylesReg = StylesFresh
    /\ \E mh \in {"NONE", "PROPAGATE"} :
          csv = CsvFresh(FALSE, FALSE, "Date1900", Some(CsvOptions(",", TRUE, TRUE, mh)))
    /\ csvLast = NoCall
    /\ sheetIn \in MergeSheetInputs
    /\ sheetOut = [op |-> "none", events |-> <<>>]
    /\ ZipIdle
    /\ ConvIdle
    /\ WorldIdle

\* parseSheetData(xmlData, handler, ..) with the collector as the handler
MergeParse ==
    /\ sheetOut.op = "none"
    /\ \E events \in {parseSheetData(MergeSheetDoc(sheetIn))} :
          /\ sheetOut' = [op |-> "parse", events |-> events]
          /\ csv' = Collect(csv, [sst |-> sst, styles |-> stylesReg], events)
    /\ UNCHANGED <<sstVars, stylesIn, stylesReg, csvLast, sheetIn, zipVars, convVars, worldVars>>

\* ---- a worksheet with unusual references ----
RefInit ==
    /\ SstInitWith({[items |-> <<>>, countAttr |-> NullOpt, present |-> FALSE,
                     canCreate |-> TRUE]}, {CsvSstConfig})
    /\ CsvIdle
    /\ sheetIn \in RefSheetInputs
    /\ sheetOut = [op |-> "none", events |-> <<>>]
    /\ ZipIdle
    /\ ConvIdle
    /\ WorldIdle

\* parseSheetData(xmlData, handler, ..)
RefParse ==
    /\ sheetOut.op = "none"
    /\ sheetOut' = [op |-> "parse", events |-> parseSheetData(RefSheetDoc(sheetIn))]
    /\ UNCHANGED <<sstVars, csvVars, sheetIn, zipVars, convVars, worldVars>>

\* ---- a worksheet of sections parsed into the collector ----
MetaInit ==
    /\ SstInitWith({[items |-> <<>>, countAttr |-> NullOpt, present |-> FALSE,
                     canCreate |-> TRUE]}, {CsvSstConfig})
    /\ stylesIn = <<>>
    /\ stylesReg = StylesFresh
    /\ csv = CsvFresh(FALSE, FALSE, "Date1900", Some(CsvOptions(",", TRUE, TRUE, "NONE")))
    /\ csvLast = NoCall
    /\ sheetIn \in MetaSheetInputs
    /\ sheetOut = [op |-> "none", events |-> <<>>]
    /\ ZipIdle
    /\ ConvIdle
    /\ WorldIdle

\* parseSheetData(xmlData, handler, ..) with the collector as the handler
MetaParse ==
    /\ sheetOut.op = "none"
    /\ \E events \in {parseSheetData(MetaSheetDoc(sheetIn))} :
          /\ sheetOut' = [op |-> "parse", events |-> events]
          /\ csv' = Collect(csv, [sst |-> sst, styles |-> stylesReg], events)
    /\ UNCHANGED <<sstVars, stylesIn, stylesReg, csvLast, sheetIn, zipVars, convVars, worldVars>>

\* ---- a worksheet of one cell parsed into the collector ----
OneCellInit ==
    /\ SstInitWith({[items |-> <<>>, countAttr |-> NullOpt, present |-> FALSE,
                     canCreate |-> TRUE]}, {CsvSstConfig})
    /\ stylesIn = <<>>
    /\ stylesReg = StylesFresh
    /\ csv = CsvFresh(FALSE, FALSE, "Date1900", Some(CsvOptions(",", TRUE, TRUE, "NONE")))
    /\ csvLast = NoCall
    /\ sheetIn \in OneCellInputs
    /\ sheetOut = [op |-> "none", events |-> <<>>]
    /\ ZipIdle
    /\ ConvIdle
    /\ WorldIdle

\* parseSheetData(xmlData, handler, ..) with the collector as the handler
OneCellParse ==
    /\ sheetOut.op = "none"
    /\ \E events \in {parseSheetData(OneCellSheetDoc(sheetIn))} :
          /\ sheetOut' = [op |-> "parse", events |-> events]
          /\ csv' = Collect(csv, [sst |-> sst, styles |-> stylesReg], events)
    /\ UNCHANGED <<sstVars, stylesIn, stylesReg, csvLast, sheetIn, zipVars, convVars, worldVars>>

\* ---- a provider given parts with rich text ----
RichInit ==
    /\ SstInitWith(RichInputs, RichConfigs)
    /\ CsvIdle
    /\ SheetIdle
    /\ ZipIdle
    /\ ConvIdle
    /\ WorldIdle

\* ---- a styles registry given xl/styles.xml ----
StyleInit ==
    /\ SstInitWith({[items |-> <<>>, countAttr |-> NullOpt, present |-> FALSE,
                     canCreate |-> TRUE]}, {CsvSstConfig})
    /\ stylesIn \in StyleSheetInputs
    /\ stylesReg = StylesFresh
    /\ csv = CsvFresh(FALSE, FALSE, "Date1900", NullOpt)
    /\ csvLast = NoCall
    /\ SheetIdle
    /\ ZipIdle
    /\ ConvIdle
    /\ WorldIdle

\* StylesRegistry::parse
StyleParse ==
    /\ stylesReg' = StylesParsed(stylesReg, StyleSheetDoc(stylesIn)).reg
    /\ UNCHANGED <<sstVars, stylesIn, csv, csvLast, sheetVars, zipVars, convVars, worldVars>>

\* StylesRegistry::close
StyleClose ==
    /\ stylesReg' = StylesClosed(stylesReg)
    /\ UNCHANGED <<sstVars, stylesIn, csv, csvLast, sheetVars, zipVars, convVars, worldVars>>

\* ---- a conversion of texts with line breaks ----
NewlineInit ==
    /\ SstInitWith({[items |-> <<>>, countAttr |-> NullOpt, present |-> FALSE,
                     canCreate |-> TRUE]}, {CsvSstConfig})
    /\ CsvIdle
    /\ SheetIdle
    /\ ZipIdle
    /\ convIn \in NewlineInputs
    /\ convOut = NoConversion
    /\ WorldIdle

\* ---- conversions in two threads ----
ThreadInit ==
    /\ SstInitWith({[items |-> <<>>, countAttr |-> NullOpt, present |-> FALSE,
                     canCreate |-> TRUE]}, {CsvSstConfig})
    /\ CsvIdle
    /\ SheetIdle
    /\ ZipIdle
    /\ ConvIdle
    /\ SpillIdle
    /\ LifeIdle
    /\ PkgIdle
    /\ gmtimeTm = TmZero
    /\ \E jobs \in [Threads -> ThreadJobs] :
          threads = [t \in Threads |-> ThreadAt(jobs[t], "start", <<>>)]

\* convertExcelSerial up to and including std::gmtime; a serial that is not
\* positive returns at once
ThreadGmtime(t) ==
    /\ threads[t].pc = "start"
    /\ LET job == threads[t].job
       IN IF job.serial <= 0
          THEN /\ threads' = [threads EXCEPT ![t].pc = "done",
                                             ![t].out = convertExcelSerial(job.serial,
                                                                           job.dateSystem)]
               /\ UNCHANGED gmtimeTm
          ELSE /\ gmtimeTm' = gmtime(job.serial, job.dateSystem)
               /\ threads' = [threads EXCEPT ![t].pc = "override"]
    /\ UNCHANGED <<sstVars, csvVars, sheetVars, zipVars, convVars, spillVars, lifeVars, pkgVars>>

\* the three assignments through the pointer gmtime returned
ThreadOverride(t) ==
    /\ threads[t].pc = "override"
    /\ gmtimeTm' = OverrideTime(gmtimeTm, threads[t].job.serial, threads[t].job.dateSystem)
    /\ threads' = [threads EXCEPT ![t].pc = "format"]
    /\ UNCHANGED <<sstVars, csvVars, sheetVars, zipVars, convVars, spillVars, lifeVars, pkgVars>>

\* std::put_time through the same pointer, and the return
ThreadFormat(t) ==
    /\ threads[t].pc = "format"
    /\ threads' = [threads EXCEPT ![t].pc = "done",
                                  ![t].out = PutTime(gmtimeTm, threads[t].job.serial,
                                                     threads[t].job.dateSystem)]
    /\ UNCHANGED <<gmtimeTm, sstVars, csvVars, sheetVars, zipVars, convVars, spillVars, lifeVars, pkgVars>>

\* ---- providers that spill to one temporary directory ----
\* two providers constructed, in one process or in two; objects of one
\* process that live at the same time have different addresses
SpillInit ==
    /\ SstInitWith({[items |-> <<>>, countAttr |-> NullOpt, present |-> FALSE,
                     canCreate |-> TRUE]}, {CsvSstConfig})
    /\ CsvIdle
    /\ SheetIdle
    /\ ZipIdle
    /\ ConvIdle
    /\ ThreadsIdle
    /\ LifeIdle
    /\ PkgIdle
    /\ tmpFiles = [path \in Addresses |-> NoFile]
    /\ \E process \in [Providers -> Processes], address \in [Providers -> Addresses],
          config \in [Providers -> SpillConfigs] :
          /\ \A i, j \in Providers :
                (i # j /\ process[i] = process[j]) => address[i] # address[j]
          /\ providers = [i \in Providers |->
                             ProviderAt(process[i], address[i], SstFresh(config[i]), "none", 0)]

SpillOps == providers[1].ops + providers[2].ops

\* parse(package) of provider i; the temporary directory accepts new files
SpillParse(i) ==
    /\ SpillOps < MaxSpillOps
    /\ \E part \in SpillParts, reader2 \in BOOLEAN :
          \E before \in {ProviderNow(i)} :
             \E r \in {SstParsedOr(before, part, TRUE, reader2)} :
                /\ providers' = [providers EXCEPT ![i].p = [r.p EXCEPT !.fileExists = FALSE],
                                                  ![i].last = "parse", ![i].ops = @ + 1]
                /\ tmpFiles' = Directory(i, before, r.p)
    /\ UNCHANGED <<sstVars, csvVars, sheetVars, zipVars, convVars, threadVars, lifeVars, pkgVars>>

\* close() of provider i, from the caller or from ~Impl
SpillClose(i) ==
    /\ SpillOps < MaxSpillOps
    /\ providers[i].last # "none"
    /\ \E before \in {ProviderNow(i)} :
          \E after \in {SstClosed(before)} :
             /\ providers' = [providers EXCEPT ![i].p = [after EXCEPT !.fileExists = FALSE],
                                               ![i].last = "close", ![i].ops = @ + 1]
             /\ tmpFiles' = Directory(i, before, after)
    /\ UNCHANGED <<sstVars, csvVars, sheetVars, zipVars, convVars, threadVars, lifeVars, pkgVars>>

\* ---- opening and closing a reader, a package and a workbook ----
LifeInit ==
    /\ SstInitWith({[items |-> <<>>, countAttr |-> NullOpt, present |-> FALSE,
                     canCreate |-> TRUE]}, {CsvSstConfig})
    /\ CsvIdle
    /\ SheetIdle
    /\ ZipIdle
    /\ ConvIdle
    /\ ThreadsIdle
    /\ SpillIdle
    /\ PkgIdle
    /\ life = LifeFresh

LifeUnchanged ==
    UNCHANGED <<sstVars, csvVars, sheetVars, zipVars, convVars, threadVars, spillVars,
                pkgVars>>

\* ZipReader::open
LifeZipOpen ==
    /\ \E file \in LifeZipFiles :
          \E r \in {ZipOpened(life.z, file)} :
             life' = [life EXCEPT !.z = r.z, !.zFile = file, !.zOpened = ~r.thrown]
    /\ LifeUnchanged

\* ZipReader::close
LifeZipClose ==
    /\ life' = [life EXCEPT !.z = ZipClosed(@), !.zOpened = FALSE]
    /\ LifeUnchanged

\* OpcPackage::open
LifeOpcOpen ==
    /\ \E file \in LifePackageFiles :
          \E r \in {OpcOpened(life.package, file, <<>>)} :
             life' = [life EXCEPT !.package = r.package, !.packageFile = file,
                                  !.packageOpened = ~r.thrown]
    /\ LifeUnchanged

\* OpcPackage::close
LifeOpcClose ==
    /\ life' = [life EXCEPT !.package = OpcClosed(@), !.packageOpened = FALSE]
    /\ LifeUnchanged

\* Workbook::open(package); an open that fails after parseWorkbook leaves the
\* sheets it read in m_sheets, and the next open appends to them
LifeWorkbookOpen ==
    /\ Len(life.wb.m_sheets) < MaxLifeSheets
    /\ \E r \in {WorkbookOpened(life.wb, life.package, life.packageFile, <<>>)} :
          life' = [life EXCEPT !.wb = r.wb, !.wbOpened = ~r.thrown]
    /\ LifeUnchanged

\* Workbook::close
LifeWorkbookClose ==
    /\ life' = [life EXCEPT !.wb = WorkbookClosed(@), !.wbOpened = FALSE]
    /\ LifeUnchanged

\* ---- a package and the workbook in it ----
PkgInit ==
    /\ SstInitWith({[items |-> <<>>, countAttr |-> NullOpt, present |-> FALSE,
                     canCreate |-> TRUE]}, {CsvSstConfig})
    /\ CsvIdle
    /\ SheetIdle
    /\ ZipIdle
    /\ ConvIdle
    /\ ThreadsIdle
    /\ SpillIdle
    /\ LifeIdle
    /\ \E in \in PkgInputs : pkg = PkgFresh(in)

\* OpcPackage::open and then findWorkbookPath()
PkgOpen ==
    /\ pkg.out.op = "none"
    /\ \E r \in {OpcOpened(pkg.package, PkgFile(pkg.in), <<>>)} :
          \E found \in {findWorkbookPath(r.package)} :
             pkg' = [pkg EXCEPT !.package = r.package,
                                !.out = [op |-> "open", thrown |-> r.thrown \/ found.thrown,
                                         path |-> found.path]]
    /\ UNCHANGED <<sstVars, csvVars, sheetVars, zipVars, convVars, threadVars, spillVars,
                   lifeVars>>

\* Workbook::open on the open package
PkgWorkbookOpen ==
    /\ pkg.out.op = "open" /\ pkg.package.m_isOpen
    /\ \E r \in {WorkbookOpened(pkg.wb, pkg.package, PkgFile(pkg.in), <<>>)} :
          pkg' = [pkg EXCEPT !.wb = r.wb,
                             !.out = [op |-> "workbook", thrown |-> r.thrown, path |-> <<>>]]
    /\ UNCHANGED <<sstVars, csvVars, sheetVars, zipVars, convVars, threadVars, spillVars,
                   lifeVars>>

\* ---- the conversion ----
ConvInit ==
    /\ SstInitWith({[items |-> <<>>, countAttr |-> NullOpt, present |-> FALSE,
                     canCreate |-> TRUE]}, {CsvSstConfig})
    /\ CsvIdle
    /\ SheetIdle
    /\ ZipIdle
    /\ convIn \in ConvInputs
    /\ convOut = NoConversion
    /\ WorldIdle

\* readSheetToCsv(xlsxPath, sheetSelector, options)
Convert ==
    /\ convOut.op = "none"
    /\ \E file \in {PackageFile(convIn.package)} :
          \E r \in {readSheetToCsv(file, convIn.sheetSelector, convIn.options, <<>>)} :
             convOut' = [op |-> "convert", thrown |-> r.thrown, csv |-> r.csv]
    /\ UNCHANGED <<sstVars, csvVars, sheetVars, zipVars, convIn, worldVars>>

SstInit == SstInitWith(SstInputs, SstConfigs) /\ CsvIdle /\ SheetIdle /\ ZipIdle /\ ConvIdle /\ WorldIdle
    /\ WorldIdle
SstNext == SstParse \/ SstClose
SpecSst == SstInit /\ [][SstNext]_vars

ZipNext == ZipOpen \/ ZipClose \/ ZipListEntries \/ ZipHasEntry \/ ZipReadEntry
SpecZip == ZipInit /\ [][ZipNext]_vars

SheetNext == SheetParse
SpecSheet == SheetInit /\ [][SheetNext]_vars

CsvNext == CsvHandleRow \/ CsvHandleWorksheetMetadata
SpecCsv == CsvInit /\ [][CsvNext]_vars

SpecOpt == OptInit /\ [][CsvNext]_vars

ThreadNext == \E t \in Threads : ThreadGmtime(t) \/ ThreadOverride(t) \/ ThreadFormat(t)
SpecThreads == ThreadInit /\ [][ThreadNext]_vars

SpillNext == \E i \in Providers : SpillParse(i) \/ SpillClose(i)
SpecSpill == SpillInit /\ [][SpillNext]_vars

LifeNext ==
    \/ LifeZipOpen \/ LifeZipClose \/ LifeOpcOpen \/ LifeOpcClose
    \/ LifeWorkbookOpen \/ LifeWorkbookClose
SpecLife == LifeInit /\ [][LifeNext]_vars

PkgNext == PkgOpen \/ PkgWorkbookOpen
SpecPkg == PkgInit /\ [][PkgNext]_vars

RefNext == RefParse
SpecRef == RefInit /\ [][RefNext]_vars

MetaNext == MetaParse
SpecMeta == MetaInit /\ [][MetaNext]_vars

OneCellNext == OneCellParse
SpecOneCell == OneCellInit /\ [][OneCellNext]_vars

SpecRich == RichInit /\ [][SstNext]_vars

StyleNext == StyleParse \/ StyleClose
SpecStyles == StyleInit /\ [][StyleNext]_vars

NewlineNext == Convert
SpecNewline == NewlineInit /\ [][NewlineNext]_vars

ConvNext == Convert
SpecConv == ConvInit /\ [][ConvNext]_vars

MergeNext == MergeParse
SpecMerge == MergeInit /\ [][MergeNext]_vars

(***************************************************************************)
(* The row collector: the fields of a row.                                 *)
(***************************************************************************)
RECURSIVE JoinFields(_, _)
JoinFields(texts, delimiter) ==
    IF texts = <<>> THEN <<>>
    ELSE IF Len(texts) = 1 THEN texts[1]
    ELSE texts[1] \o <<delimiter>> \o JoinFields(Tail(texts), delimiter)

StrictlyAscending(cells) ==
    \A i \in 1..(Len(cells) - 1) :
        cells[i].coordinate.column < cells[i + 1].coordinate.column

\* the last call handed over a row that is not filtered out as hidden
RowHandled == csvLast.op = "row" /\ ~RowSkipped(csv, csvLast.row)

\* include_hidden_columns as the collector was configured; a collector built
\* without options filters nothing
IncludeHiddenColumns == ~csv.m_options.has \/ csv.m_options.value.includeHiddenColumns
MergedHandlingNone == ~csv.m_options.has \/ csv.m_options.value.mergedHandling = "NONE"

LastMaxCol ==
    CHOOSE m \in {csvLast.row.cells[i].coordinate.column : i \in 1..Len(csvLast.row.cells)} :
        \A i \in 1..Len(csvLast.row.cells) : csvLast.row.cells[i].coordinate.column <= m

\* the columns of the last row that are to be emitted
LastEmittedColumns ==
    {col \in 1..LastMaxCol :
        IncludeHiddenColumns \/ ~isColumnHidden(csv.m_worksheetMetadata, col)}

\* the converted text of the cell the last row has at col, empty without one
LastCellText(col) ==
    LET at == {i \in 1..Len(csvLast.row.cells) : csvLast.row.cells[i].coordinate.column = col}
    IN IF at = {} THEN <<>>
       ELSE convertCellValue(csvLast.row.cells[CHOOSE i \in at : TRUE],
                             [has |-> csv.m_sharedStrings, value |-> sst],
                             [has |-> csv.m_styles, value |-> stylesReg], csv.m_dateSystem)

\* C1: for a row that is not skipped, has a cell and has its cells in
\* strictly ascending column order, handleRow emits exactly one field per
\* column of 1..max_col that is not hidden (per column of 1..max_col when
\* hidden columns are included), in ascending column order, appends them
\* with the delimiter between consecutive fields and one newline at the end,
\* and with merged handling None each field is the converted text of the
\* row's cell at that column, or empty when the row has none there.
C1_OneFieldPerEmittedColumn ==
    (RowHandled /\ csvLast.row.cells # <<>> /\ StrictlyAscending(csvLast.row.cells)) =>
        /\ Len(csvLast.fields) = Cardinality(LastEmittedColumns)
        /\ \A i \in 1..Len(csvLast.fields) : csvLast.fields[i].col \in LastEmittedColumns
        /\ \A i \in 1..(Len(csvLast.fields) - 1) :
              csvLast.fields[i].col < csvLast.fields[i + 1].col
        /\ csv.m_csvOutput =
              csvLast.before
              \o JoinFields([i \in 1..Len(csvLast.fields) |-> csvLast.fields[i].written],
                            csv.m_delimiter)
              \o <<LF>>
        /\ MergedHandlingNone =>
              \A i \in 1..Len(csvLast.fields) :
                  csvLast.fields[i].value = LastCellText(csvLast.fields[i].col)

\* a row with a hidden column left out between two emitted fields, appended
\* to earlier output
C1_Witness ==
    /\ RowHandled /\ StrictlyAscending(csvLast.row.cells)
    /\ Len(csvLast.row.cells) = 2
    /\ Len(csvLast.fields) = 2
    /\ csvLast.fields[1].col = 1 /\ csvLast.fields[2].col = 3
    /\ ~IncludeHiddenColumns
    /\ csvLast.fields[2].value # <<>>
    /\ csvLast.before # <<>>

(***************************************************************************)
(* The row collector: quoting, and reading the output back.                *)
(***************************************************************************)
\* An RFC 4180 reader with the given delimiter: a field that starts with a
\* double quote runs to the closing quote, a doubled quote inside it stands
\* for one quote; any other field runs to the next delimiter or line feed;
\* a line feed outside quotes ends the record.  Result: [ok, records].
\* mode: "start" at the start of a field, "plain" in an unquoted field,
\* "quoted" in a quoted field, "closed" after the closing quote.
RECURSIVE ReadCsv(_, _, _, _, _, _, _)
ReadCsv(text, delimiter, i, mode, field, record, records) ==
    IF i > Len(text)
    THEN [ok |-> mode = "start" /\ record = <<>>, records |-> records]
    ELSE LET ch == text[i]
         IN IF mode = "quoted"
            THEN IF ch # QUOTE
                 THEN ReadCsv(text, delimiter, i + 1, "quoted", Append(field, ch), record, records)
                 ELSE IF i < Len(text) /\ text[i + 1] = QUOTE
                 THEN ReadCsv(text, delimiter, i + 2, "quoted", Append(field, QUOTE), record, records)
                 ELSE ReadCsv(text, delimiter, i + 1, "closed", field, record, records)
            ELSE IF mode = "start" /\ ch = QUOTE
            THEN ReadCsv(text, delimiter, i + 1, "quoted", <<>>, record, records)
            ELSE IF ch = LF
            THEN ReadCsv(text, delimiter, i + 1, "start", <<>>, <<>>,
                         Append(records, Append(record, field)))
            ELSE IF ch = delimiter
            THEN ReadCsv(text, delimiter, i + 1, "start", <<>>, Append(record, field), records)
            ELSE IF mode = "closed"
            THEN [ok |-> FALSE, records |-> records]
            ELSE ReadCsv(text, delimiter, i + 1, "plain", Append(field, ch), record, records)

\* the text the last call appended to the output
LastAppended == SubSeq(csv.m_csvOutput, Len(csvLast.before) + 1, Len(csv.m_csvOutput))

\* the last row, read back from what was appended for it, is the one record
\* of its emitted fields
LastRowReadBack ==
    ReadCsv(LastAppended, csv.m_delimiter, 1, "start", <<>>, <<>>, <<>>) =
        [ok |-> TRUE,
         records |-> <<[i \in 1..Len(csvLast.fields) |-> csvLast.fields[i].value]>>]

\* a field in quotes, each of its quotes doubled
InQuotes(text) ==
    <<QUOTE>>
    \o Concat([i \in 1..Len(text) |-> IF text[i] = QUOTE THEN <<QUOTE, QUOTE>> ELSE <<text[i]>>])
    \o <<QUOTE>>

\* every emitted field of the last row that holds the delimiter, a double
\* quote, LF or CR was written in quotes with its quotes doubled
LastRowQuoted ==
    \A i \in 1..Len(csvLast.fields) :
        (\E k \in 1..Len(csvLast.fields[i].value) :
            csvLast.fields[i].value[k] \in {csv.m_delimiter, QUOTE, LF, CR})
        => csvLast.fields[i].written = InQuotes(csvLast.fields[i].value)

\* C2 as stated: for every field text and every delimiter, a field with the
\* delimiter, a double quote, LF or CR is written in double quotes with every
\* embedded quote doubled, and the fields of the row can be read back
\* unambiguously from the output.
C2_QuotedAndRecoverable ==
    (RowHandled /\ csvLast.fields # <<>>) => (LastRowQuoted /\ LastRowReadBack)

\* C2, amended: the quoting holds for every delimiter; the fields of the row
\* are read back from the output whenever the delimiter is neither the
\* double quote nor the line feed.
C2_QuotedAndRecoverableUnlessQuoteOrLfDelimiter ==
    (RowHandled /\ csvLast.fields # <<>>) =>
        /\ LastRowQuoted
        /\ csv.m_delimiter \notin {QUOTE, LF} => LastRowReadBack

\* a row of two fields, the first holding a quote and the delimiter
C2_Witness ==
    /\ RowHandled
    /\ Len(csvLast.fields) = 2
    /\ csvLast.fields[1].value = <<QUOTE, ",">>
    /\ csv.m_delimiter = ","
    /\ csvLast.fields[1].written = <<QUOTE, QUOTE, QUOTE, ",", QUOTE>>

(***************************************************************************)
(* The row collector: dates.                                               *)
(***************************************************************************)
\* the part xl/styles.xml gives style index s a date/time number format
StyleIsDateTime(s) ==
    s \in 0..(Len(stylesIn) - 1)
    /\ XfFormatType(StylesFresh, stylesIn[s + 1]) \in {"Date", "Time", "DateTime"}

DueText == <<"D", "u", "e">>
LastRowIsDueAndSerial ==
    /\ Len(csvLast.row.cells) = 2
    /\ LET a1 == csvLast.row.cells[1]
           b1 == csvLast.row.cells[2]
       IN /\ a1.coordinate.column = 1 /\ a1.type = "SharedString"
          /\ a1.value.k = "Index" /\ tryGetString(sst, a1.value.n) = Some(DueText)
          /\ b1.coordinate.column = 2 /\ b1.type = "Number"
          /\ b1.value = VDouble(Serial44562)
          /\ b1.styleIndex \in 1..(Len(stylesIn) - 1)
          /\ stylesIn[b1.styleIndex + 1] = 14

\* C5: in a workbook of the 1900 date system, the row with the shared string
\* "Due" in A1 and the number 44562 in B1, B1 styled (by a style index above
\* 0) with built-in format 14, comes out as Due,2022-01-01 and a newline.
C5_DueRowIs20220101 ==
    (/\ RowHandled /\ LastRowIsDueAndSerial
     /\ csv.m_styles /\ csv.m_sharedStrings /\ csv.m_dateSystem = "Date1900"
     /\ csv.m_delimiter = "," /\ LastEmittedColumns = {1, 2})
    => LastAppended = DueText \o <<",", "2", "0", "2", "2", "-", "0", "1", "-", "0", "1", LF>>

\* C6: with a styles registry, a Number cell is emitted as a date/time when
\* its style index, 0 included, designates a date/time style, and as a plain
\* number otherwise.
C6_DateStyleAtEveryIndex ==
    (RowHandled /\ csv.m_styles /\ StrictlyAscending(csvLast.row.cells)) =>
        \A i \in 1..Len(csvLast.fields) : \A k \in 1..Len(csvLast.row.cells) :
            LET cell == csvLast.row.cells[k]
            IN (/\ cell.coordinate.column = csvLast.fields[i].col
                /\ cell.type = "Number" /\ cell.value.k = "Double")
               => csvLast.fields[i].value =
                      IF StyleIsDateTime(cell.styleIndex)
                      THEN convertExcelSerial(cell.value.n, csv.m_dateSystem)
                      ELSE formatNumericValue(cell.value.n)

(***************************************************************************)
(* Shared strings: count() and get(i) after a successful parse.            *)
(***************************************************************************)
\* the text of an <si>: its <t> children and the <t> of its runs, in order
SiText(item) ==
    CASE item.k = "t" -> item.x
      [] item.k = "rich" -> item.x \o Concat(item.runs)
      [] OTHER -> <<>>

\* C4: after a successful parse of a shared-string part, in arena mode and in
\* spill-file mode, count() is the number of <si> elements of the part and
\* get(i) succeeds for every i < count() with the text of the i-th <si>, cut
\* to maxStringLength, also when an <si> is empty or self-closing.
C4_CountAndGetMatchPart ==
    (sstOut.op = "parse" /\ ~sstOut.thrown /\ sstIn.present) =>
        /\ getStringCount(sst) = Len(sstIn.items)
        /\ \A i \in 0..(Len(sstIn.items) - 1) :
              tryGetString(sst, i) =
                  Some(Prefix(SiText(sstIn.items[i + 1]), sst.m_config.maxStringLength))


(***************************************************************************)
(* The sheet reader: the rows delivered for a worksheet.                   *)
(***************************************************************************)
\* the value a <c> states in its own <v> or <is> child
OwnValue(cell) ==
    CASE cell.kind \in {"v", "fv"} ->
            sheetConvertCellValue(cell.x, IF cell.t.has THEN CellTypeOf(cell.t.value)
                                          ELSE "Number")
      [] cell.kind = "is" -> VText(cell.x)
      [] OTHER -> VEmpty

\* the rows the handler received, each as its number and the coordinate and
\* value of its cells
DeliveredRows ==
    LET rowEvents == SelectSeq(sheetOut.events, LAMBDA ev : ev.e = "row")
    IN [i \in 1..Len(rowEvents) |->
          [rowNumber |-> rowEvents[i].row.rowNumber,
           cells |-> [j \in 1..Len(rowEvents[i].row.cells) |->
                         [coordinate |-> rowEvents[i].row.cells[j].coordinate,
                          value |-> rowEvents[i].row.cells[j].value]]]]

\* one row per <row> of the part, one cell per <c> of the row
SourceRows ==
    [i \in 1..Len(sheetIn.rows) |->
        [rowNumber |-> i,
         cells |-> [j \in 1..Len(sheetIn.rows[i].cells) |->
                       [coordinate |-> CellCoordinate(i, j),
                        value |-> OwnValue(sheetIn.rows[i].cells[j])]]]]

\* the part was parsed to its end without an error reported to the handler
SheetParsedWhole ==
    /\ sheetOut.op = "parse"
    /\ \A i \in 1..Len(sheetOut.events) : sheetOut.events[i].e # "error"

\* C3: for a well-formed worksheet, the handler receives exactly one row
\* per <row> element in document order, and each delivered row holds exactly
\* one cell per <c> child of that <row>, in document order, each carrying
\* the value of its own <v> or <is> child, also when a cell holds a
\* self-closing <v/> or a formula element before the value.
C3_OneRowPerRowOneCellPerC == SheetParsedWhole => DeliveredRows = SourceRows


(***************************************************************************)
(* The ZIP reader: suspicious paths and repeated listings.                 *)
(***************************************************************************)
\* a path that contains "..", starts with "/", contains a NUL byte or is
\* longer than 1024 bytes
UnsafePath(path) ==
    \/ Len(path) > 1024
    \/ (Len(path) > 0 /\ path[1] = "/")
    \/ \E i \in 1..Len(path) : path[i] = NUL
    \/ \E i \in 2..Len(path) : path[i - 1] = "." /\ path[i] = "."

ListedPathsSafe ==
    zipOut.op = "list" => \A i \in 1..Len(zipOut.entries) : ~UnsafePath(zipOut.entries[i].path)
UnsafeReadFails ==
    (zipOut.op = "read" /\ UnsafePath(zipOut.path)) => (zipOut.thrown /\ zipOut.data = <<>>)

\* the archive holds an entry that is oversized or encrypted
ArchiveHasRejectedEntry ==
    \E i \in 1..Len(zipIn.entries) :
        zipIn.entries[i].encrypted \/ zipIn.entries[i].size > zip.m_limits.maxEntrySize

\* C7 as stated: on an open reader no listed path is unsafe, and for every
\* unsafe path p hasEntry(p) is false and readEntry(p) fails without data.
C7_UnsafePathsNeverListedFoundOrRead ==
    zip.m_isOpen =>
        /\ ListedPathsSafe
        /\ (zipOut.op = "has" /\ UnsafePath(zipOut.path)) => (~zipOut.thrown /\ ~zipOut.found)
        /\ UnsafeReadFails

\* C7, amended: on an open reader no listed path is unsafe, and for every
\* unsafe path p hasEntry(p) never answers true (it answers false, or fails
\* with an error when the archive holds an oversized or encrypted entry) and
\* readEntry(p) fails without data, also when the archive stores an entry
\* under that name.
C7_UnsafePathsNeverListedNeverFoundNeverRead ==
    zip.m_isOpen =>
        /\ ListedPathsSafe
        /\ (zipOut.op = "has" /\ UnsafePath(zipOut.path)) =>
              /\ ~zipOut.found
              /\ zipOut.thrown => ArchiveHasRejectedEntry
        /\ UnsafeReadFails

\* readEntry was refused for an unsafe path under which the open archive
\* stores an entry, after a listing that returned entries
C7_Witness ==
    /\ zip.m_isOpen
    /\ zipOut.op = "read" /\ UnsafePath(zipOut.path) /\ zipOut.thrown
    /\ \E i \in 1..Len(zipIn.entries) : zipIn.entries[i].name = zipOut.path
    /\ zipOut.listed.has /\ ~zipOut.listed.thrown /\ zipOut.listed.entries # <<>>

\* C9: on an open reader any two listEntries() calls have the same outcome,
\* both returning the same entries or both failing, also when the first
\* call failed part-way at an oversized or encrypted entry.
C9_ListEntriesIdempotent ==
    (zip.m_isOpen /\ zipOut.op = "list" /\ zipOut.listedBefore.has) =>
        zipOut.listed = zipOut.listedBefore

(***************************************************************************)
(* The conversion: the limits of the options and faults in the parts.      *)
(***************************************************************************)
RECURSIVE TotalSize(_)
TotalSize(entries) == IF entries = <<>> THEN 0 ELSE Head(entries).size + TotalSize(Tail(entries))

\* the package exceeds a limit given in the options
PackageExceedsOptions ==
    LET entries == PackageFile(convIn.package).entries
    IN \/ Len(entries) > convIn.options.maxEntries
       \/ \E i \in 1..Len(entries) : entries[i].size > convIn.options.maxEntrySize
       \/ TotalSize(entries) > convIn.options.maxTotalUncompressed

\* C8: a conversion enforces the max_entries, max_entry_size and
\* max_total_uncompressed values of its options: readSheetToCsv fails with an
\* error on every package that exceeds one of them, whatever the built-in
\* default limits are.
C8_OptionLimitsEnforced ==
    convOut.op = "convert" /\ PackageExceedsOptions => convOut.thrown

\* C10: a fatal XML parse fault in any part the conversion reads (content
\* types, package relationships, workbook, workbook relationships, styles,
\* shared strings, worksheet) makes readSheetToCsv fail with an error instead
\* of returning CSV text.
C10_FaultInAnyPartFails ==
    convOut.op = "convert" /\ convIn.package.fault # "none" => convOut.thrown

(***************************************************************************)
(* The sheet reader: a <v> that is no number.                              *)
(***************************************************************************)
\* a <c> of type Number whose <v> text does not parse as a number
UnparsableNumber(cell) ==
    /\ cell.kind \in {"v", "fv"}
    /\ (cell.t.has => CellTypeOf(cell.t.value) = "Number")
    /\ cell.x # <<>>
    /\ ~strtod(cell.x).has

SourceHasUnparsableNumber ==
    \E i \in 1..Len(sheetIn.rows) : \E j \in 1..Len(sheetIn.rows[i].cells) :
        UnparsableNumber(sheetIn.rows[i].cells[j])

\* C11: when the <v> text of a Number cell does not parse as a number, the
\* cell is delivered as empty, the handler's error list gains an entry for
\* it, and the remaining cells and rows are still parsed.
C11_UnparsableNumberIsRecorded ==
    sheetOut.op = "parse" /\ sheetIn.fault = 0 /\ sheetIn.cols # "badwidth"
        /\ SourceHasUnparsableNumber
    => /\ \E k \in 1..Len(sheetOut.events) : sheetOut.events[k].e = "error"
       /\ Len(SelectSeq(sheetOut.events, LAMBDA ev : ev.e = "row")) = Len(sheetIn.rows)

(***************************************************************************)
(* The collector behind the sheet reader: merged ranges.                   *)
(***************************************************************************)
\* the range the worksheet declares
DeclaredRange == MergedCellRange_fromReference(sheetIn.ref).value

HasCellAt(row, column) == \E j \in 1..Len(sheetIn.rows[row]) : sheetIn.rows[row][j] = column

\* the positions the claim is about: no cell, not beyond the row's last
\* cell, inside the declared range, the range's top-left cell present
PropagatedPositions ==
    {pos \in (1..Len(sheetIn.rows)) \X (1..MaxMergeCol) :
        /\ ~HasCellAt(pos[1], pos[2])
        /\ \E j \in 1..Len(sheetIn.rows[pos[1]]) : sheetIn.rows[pos[1]][j] > pos[2]
        /\ RangeContains(DeclaredRange, CellCoordinate(pos[1], pos[2]))
        /\ HasCellAt(1, 1)}

\* the records of the CSV text the collector holds
EmittedRecords == ReadCsv(csv.m_csvOutput, csv.m_delimiter, 1, "start", <<>>, <<>>, <<>>).records

PropagatedEverywhere ==
    \A pos \in PropagatedPositions : EmittedRecords[pos[1]][pos[2]] = MergeCellText(1, 1)

\* C12: with merged_handling = Propagate, every position without a cell that
\* is not beyond its row's max column and lies inside a declared merged
\* range is emitted as the text of the range's top-left cell, whether the
\* <mergeCells> section follows <sheetData> or precedes it.
C12_MergedValuePropagated ==
    sheetOut.op = "parse" /\ Propagate(csv) => PropagatedEverywhere

(***************************************************************************)
(* The row collector: the quote_all and date_mode options.                 *)
(***************************************************************************)
QuoteAll == csv.m_options.has /\ csv.m_options.value.quoteAll
DateModeOf == IF csv.m_options.has THEN csv.m_options.value.dateMode ELSE "ISO"

\* C13: with quote_all true every emitted field is written in double quotes,
\* also a field without delimiter, double quote, LF or CR; with quote_all
\* false a field is written in double quotes only when it holds one of those
\* characters.
C13_QuoteAllQuotesEveryField ==
    RowHandled =>
        \A i \in 1..Len(csvLast.fields) :
            csvLast.fields[i].written =
                IF QuoteAll \/ needsQuoting(csvLast.fields[i].value, csv.m_delimiter)
                THEN InQuotes(csvLast.fields[i].value)
                ELSE csvLast.fields[i].value

\* C14: a date-styled Number cell with a positive serial is emitted as an
\* ISO-8601 date/time with date_mode ISO and as its raw numeric serial with
\* date_mode RAW, and the two renderings differ.
C14_DateModeSelectsRendering ==
    (RowHandled /\ csv.m_styles /\ StrictlyAscending(csvLast.row.cells)) =>
        \A i \in 1..Len(csvLast.fields) : \A k \in 1..Len(csvLast.row.cells) :
            LET cell == csvLast.row.cells[k]
            IN (/\ cell.coordinate.column = csvLast.fields[i].col
                /\ cell.type = "Number" /\ cell.value.k = "Double" /\ cell.value.n > 0
                /\ StyleIsDateTime(cell.styleIndex))
               => /\ csvLast.fields[i].value =
                        IF DateModeOf = "RAW"
                        THEN formatNumericValue(cell.value.n)
                        ELSE convertExcelSerial(cell.value.n, csv.m_dateSystem)
                  /\ formatNumericValue(cell.value.n)
                        # convertExcelSerial(cell.value.n, csv.m_dateSystem)

(***************************************************************************)
(* Conversions in several threads.                                         *)
(***************************************************************************)
\* C15: conversions that run at the same time in different threads do not
\* interfere: under every interleaving each thread's conversion returns what
\* it returns when it runs alone.
C15_ThreadsDoNotInterfere ==
    \A t \in Threads :
        threads[t].pc = "done"
        => threads[t].out = convertExcelSerial(threads[t].job.serial, threads[t].job.dateSystem)

(***************************************************************************)
(* Shared strings: the spill files of several providers.                   *)
(***************************************************************************)
InSpillMode(i) == providers[i].p.m_isUsingDisk
\* provider i writes to and reads from the file its open() created
SpillFileInUse(i) ==
    /\ InSpillMode(i) /\ providers[i].p.m_isOpen
    /\ providers[i].p.streamOpen /\ ~providers[i].p.streamFail
SpillFileOf(i) == tmpFiles[diskFilePath(providers[i].address)]

\* C16: two providers that are in spill mode at the same time, in one process
\* or in two, use different file paths, and the file a provider spilled to
\* stays its own: no other provider truncates or deletes it.
C16_SpillPathsDiffer ==
    /\ \A i, j \in Providers :
          (i # j /\ InSpillMode(i) /\ InSpillMode(j))
          => diskFilePath(providers[i].address) # diskFilePath(providers[j].address)
    /\ \A i \in Providers : SpillFileInUse(i) => SpillFileOf(i) = {i}

\* C17: once a provider has been closed or destroyed, the spill file its
\* parse() created no longer exists, also when a parse failed after the file
\* was created.
C17_SpillFileGoneAfterClose ==
    \A i \in Providers : providers[i].last = "close" => SpillFileOf(i) # {i}

(***************************************************************************)
(* ZipReader, OpcPackage, Workbook: isOpen() and the queries of an object  *)
(* that is not open.                                                       *)
(***************************************************************************)
\* C18: after any sequence of open and close calls isOpen() is true exactly
\* when the most recent open succeeded and no close followed it; while an
\* object is not open, listEntries, hasEntry and readEntry, findWorkbookPath
\* and getContentTypes, getSheets and getProperties fail with XlsxError and
\* getSheetCount() is 0.
C18_IsOpenAndQueriesWhenClosed ==
    /\ life.z.m_isOpen = life.zOpened
    /\ life.package.m_isOpen = life.packageOpened
    /\ life.wb.m_isOpen = life.wbOpened
    /\ ~life.z.m_isOpen =>
          /\ listEntries(life.z, life.zFile, <<>>).thrown
          /\ \A path \in ZipProbes :
                /\ hasEntry(life.z, life.zFile, path, <<>>).thrown
                /\ readEntry(life.z, life.zFile, path).thrown
    /\ ~life.package.m_isOpen =>
          /\ findWorkbookPath(life.package).thrown
          /\ getContentTypes(life.package).thrown
    /\ ~life.wb.m_isOpen =>
          /\ getSheets(life.wb).thrown
          /\ getProperties(life.wb).thrown
          /\ getSheetCount(life.wb) = 0

\* an open of the workbook that failed after the sheets were read, on a
\* package whose own open failed after its archive was opened, next to a
\* reader whose open failed on the limits
C18_Witness ==
    /\ ~life.wb.m_isOpen /\ life.wb.m_sheets # <<>>
    /\ ~life.z.m_isOpen /\ life.z.m_unzFile
    /\ ~life.package.m_isOpen /\ life.package.m_zipReader.m_isOpen

(***************************************************************************)
(* The package: the workbook part, and the targets of the sheets.          *)
(***************************************************************************)
\* the positions of _rels/.rels whose Type holds "officeDocument"
OfficeDocumentPositions ==
    {i \in 1..Len(pkg.in.rels) :
        pkg.in.rels[i].type \in {OfficeDocumentType, ExtendedPropertiesType}}
\* of these, the positions that are the last with their Id
LastWithItsId ==
    {i \in 1..Len(pkg.in.rels) :
        \A j \in (i + 1)..Len(pkg.in.rels) : pkg.in.rels[j].id # pkg.in.rels[i].id}
PackageOpened == pkg.out.op = "open" /\ pkg.package.m_isOpen /\ ~pkg.in.standard

\* C19 as stated: findWorkbookPath() returns the Target of the first
\* relationship of _rels/.rels in document order whose Type holds
\* "officeDocument", whatever the Ids are.
C19_FirstInDocumentOrder ==
    (PackageOpened /\ OfficeDocumentPositions # {}) =>
        /\ ~pkg.out.thrown
        /\ pkg.out.path =
              RelTarget(CHOOSE i \in OfficeDocumentPositions :
                            \A j \in OfficeDocumentPositions : i <= j)

\* C19, amended: of the relationships of _rels/.rels, each Id counted with
\* its last occurrence, findWorkbookPath() returns the Target of the one
\* with the least Id among those whose Type holds "officeDocument", and
\* fails when there is none.
C19_LeastIdAmongOfficeDocument ==
    PackageOpened =>
        LET matching == OfficeDocumentPositions \cap LastWithItsId
        IN IF matching = {} THEN pkg.out.thrown
           ELSE /\ ~pkg.out.thrown
                /\ pkg.out.path =
                      RelTarget(CHOOSE i \in matching :
                                    \A j \in matching :
                                        KeyRank(pkg.in.rels[i].id) <= KeyRank(pkg.in.rels[j].id))

\* the extended properties come first in the file with the Id rId3, the
\* workbook second with rId1: the workbook is returned
C19_Witness ==
    /\ PackageOpened
    /\ Len(pkg.in.rels) = 2
    /\ pkg.in.rels[1] = [id |-> "rId3", type |-> ExtendedPropertiesType]
    /\ pkg.in.rels[2] = [id |-> "rId1", type |-> OfficeDocumentType]
    /\ pkg.out.path = RelTarget(2)

\* C20: after a workbook has been opened successfully, every sheet of its
\* list has a target that is not empty and that, prefixed with "xl/", names
\* an entry of the package's ZIP listing.
C20_SheetTargetsAreListed ==
    (pkg.out.op = "workbook" /\ pkg.wb.m_isOpen) =>
        \A i \in 1..Len(pkg.wb.m_sheets) :
            /\ pkg.wb.m_sheets[i].target # <<>>
            /\ LET listed == listEntries(pkg.package.m_zipReader, PkgFile(pkg.in), <<>>)
               IN /\ ~listed.thrown
                  /\ \E k \in 1..Len(listed.entries) :
                        listed.entries[k].path = XlPrefix \o pkg.wb.m_sheets[i].target

(***************************************************************************)
(* The sheet reader: the shape of the rows it delivers.                    *)
(***************************************************************************)
\* the rows the handler received
RowsDelivered ==
    LET rowEvents == SelectSeq(sheetOut.events, LAMBDA ev : ev.e = "row")
    IN [i \in 1..Len(rowEvents) |-> rowEvents[i].row]

\* C21: every row delivered by the sheet stream reader has row_number >= 1,
\* every cell in it has coordinate.row equal to the row's row_number, and
\* its cells are in non-decreasing column order, for any worksheet XML
\* (cells whose r attribute is missing, malformed, out of column order or
\* names a different row included).
C21_RowsNumberedCellsInRowAndOrdered ==
    \A i \in 1..Len(RowsDelivered) :
        LET row == RowsDelivered[i]
        IN /\ row.rowNumber >= 1
           /\ \A j \in 1..Len(row.cells) : row.cells[j].coordinate.row = row.rowNumber
           /\ \A j \in 1..(Len(row.cells) - 1) :
                 row.cells[j].coordinate.column <= row.cells[j + 1].coordinate.column

\* the worksheet names a row beyond 1048576 or a column beyond XFD (16384),
\* in its row number or in a well-formed cell reference
SourceBeyondSheetLimits ==
    LET parsedRow == IF sheetIn.row.has THEN parseInt(sheetIn.row.value) ELSE NullOpt
    IN \/ parsedRow.has /\ parsedRow.value > 1048576
       \/ \E j \in 1..Len(sheetIn.cells) :
             LET coord == IF sheetIn.cells[j].has
                          THEN parseCellReference(sheetIn.cells[j].value) ELSE NullOpt
             IN coord.has /\ (coord.value.row > 1048576 \/ coord.value.column > 16384)

\* C27: a worksheet containing a cell reference or row number beyond column
\* 16384 (XFD) or row 1048576 causes an error to be surfaced from the sheet
\* stream, instead of the cell being delivered as an ordinary cell.
C27_BeyondSheetLimitsIsAnError ==
    (sheetOut.op = "parse" /\ SourceBeyondSheetLimits)
        => \E i \in 1..Len(sheetOut.events) : sheetOut.events[i].e = "error"

(***************************************************************************)
(* The sheet reader: the metadata snapshots of one parse.                  *)
(***************************************************************************)
\* the merged ranges and the column descriptors a section states
SectionRanges(kind) ==
    CASE kind = "merge" -> <<MergedCellRange(CellCoordinate(1, 1), CellCoordinate(1, 2))>>
      [] kind = "merges" -> <<MergedCellRange(CellCoordinate(1, 3), CellCoordinate(2, 3))>>
      [] OTHER -> <<>>
SectionColumns(kind) ==
    CASE kind = "cols" -> <<ColumnInfo(1, TRUE), ColumnInfo(2, TRUE)>>
      [] kind = "col3" -> <<ColumnInfo(3, FALSE)>>
      [] OTHER -> <<>>
\* all merged ranges and column descriptors of the sheet
SheetMetadata ==
    WorksheetMetadata(
        Concat([i \in 1..Len(sheetIn.sections) |-> SectionRanges(sheetIn.sections[i])]),
        Concat([i \in 1..Len(sheetIn.sections) |-> SectionColumns(sheetIn.sections[i])]))

\* snapshot b contains every merged range and column descriptor of a
Covers(b, a) ==
    /\ \A k \in 1..Len(a.mergedCells) :
          \E l \in 1..Len(b.mergedCells) : b.mergedCells[l] = a.mergedCells[k]
    /\ \A k \in 1..Len(a.columnInfo) :
          \E l \in 1..Len(b.columnInfo) : b.columnInfo[l] = a.columnInfo[k]

Snapshots ==
    LET metadataEvents == SelectSeq(sheetOut.events, LAMBDA ev : ev.e = "metadata")
    IN [i \in 1..Len(metadataEvents) |-> metadataEvents[i].metadata]

\* the whole sheet was parsed: no error was reported to the handler
MetaParsedWhole ==
    /\ sheetOut.op = "parse"
    /\ \A i \in 1..Len(sheetOut.events) : sheetOut.events[i].e # "error"

OneCellDelivered ==
    /\ sheetOut.op = "parse"
    /\ Len(RowsDelivered) = 1
    /\ Len(RowsDelivered[1].cells) = 1
TheCell == RowsDelivered[1].cells[1]

\* C23: a cell of type Boolean is interpreted as true when its <v> text is
\* "1", as false when it is "0", and as Empty for any other text, so that
\* it is emitted as an empty field and not as TRUE or FALSE.
C23_BooleanOneZeroElseEmpty ==
    (sheetOut.op = "parse" /\ sheetIn.t = Some(<<"b">>) /\ sheetIn.body.kind = "v")
        => /\ OneCellDelivered
           /\ TheCell.type = "Boolean"
           /\ CASE sheetIn.body.x = <<"1">> ->
                      TheCell.value = VBool(TRUE) /\ csv.m_csvOutput = <<"T", "R", "U", "E", LF>>
                [] sheetIn.body.x = <<"0">> ->
                      TheCell.value = VBool(FALSE)
                      /\ csv.m_csvOutput = <<"F", "A", "L", "S", "E", LF>>
                [] OTHER -> TheCell.value = VEmpty /\ csv.m_csvOutput = <<LF>>

\* C24: for a cell with an <is> child, the cell's type is InlineString and
\* its value is the concatenation, in document order, of the text of every
\* <t> element that is a descendant of the <is>, the <t> elements inside
\* several rich-text runs included.
C24_InlineStringIsAllDescendantText ==
    (sheetOut.op = "parse" /\ sheetIn.body.kind = "is")
        => /\ OneCellDelivered
           /\ TheCell.type = "InlineString"
           /\ TheCell.value = VText(Concat(sheetIn.body.texts))

(***************************************************************************)
(* Shared strings: rich-text runs and flatten_rich_text.                   *)
(***************************************************************************)
\* the text of the <t> elements that are direct children of an <si>
TopLevelText(item) == item.x
\* the text of the <t> inside each <r> of an <si>, in document order
RunText(item) == Concat(item.runs)

\* C25: when flatten_rich_text is false, the string stored for an <si>
\* holds only the text of the <t> elements that are direct children of the
\* <si>, and text inside <r> rich-text runs does not contribute; when it is
\* true, the text of the <t> inside each <r> is concatenated in document
\* order as well.
C25_RunsContributeOnlyWhenFlattening ==
    (sstOut.op = "parse" /\ ~sstOut.thrown) =>
        \A i \in 0..(Len(sstIn.items) - 1) :
            tryGetString(sst, i) =
                Some(IF sst.m_config.flattenRichText
                     THEN TopLevelText(sstIn.items[i + 1]) \o RunText(sstIn.items[i + 1])
                     ELSE TopLevelText(sstIn.items[i + 1]))

(***************************************************************************)
(* C26: date-time styles of the registry.                                  *)
(***************************************************************************)
\* the format codes the <xf> of index i resolves to: those of the custom
\* formats of its numFmtId, else the one of the built-in format of that id
ResolvedCodes(in, i) ==
    LET id == LeadingNat(in.xfs[i + 1].value, 0)
        custom == {in.numFmts[k].formatCode :
                      k \in {j \in 1..Len(in.numFmts) :
                                LeadingNat(in.numFmts[j].numFmtId, 0) = id}}
        builtIn == getBuiltInNumberFormat(id)
    IN IF custom # {} THEN custom
       ELSE IF builtIn.has THEN {builtIn.value.formatCode}
       ELSE {}

\* whether the classifier puts a code of the <xf> of index i in Date, Time or
\* DateTime; FALSE for an index outside the list and an <xf> without numFmtId
ClassifiedDateTime(in, i) ==
    IF i >= 0 /\ i < Len(in.xfs) /\ in.xfs[i + 1].has /\ ResolvedCodes(in, i) # {}
    THEN {(detectNumberFormatType(c) \in {"Date", "Time", "DateTime"}) :
             c \in ResolvedCodes(in, i)}
    ELSE {FALSE}

StyleIndexes == (0 - 1)..(MaxXfs + 1)

\* C26: after the registry has parsed styles.xml, isDateTimeStyle(i) is true
\* exactly when i is the index of an <xf> whose numFmtId resolves (custom
\* first, else built-in) to a code the classifier puts in Date, Time or
\* DateTime, and false for every other index
C26_HotExactlyWhenCodeClassifiesAsDateTime ==
    stylesReg.m_isOpen =>
        \A i \in StyleIndexes :
            isDateTimeStyle(stylesReg, i) \in ClassifiedDateTime(stylesIn, i)

(***************************************************************************)
(* C28: a successful open after a failed one.                              *)
(***************************************************************************)
\* C28: a Workbook::open that succeeds leaves the workbook with exactly the
\* sheets, relationships and properties that a newly constructed workbook
\* has after open on the same package, whatever earlier attempts on the
\* object did
C28_SuccessfulOpenShowsOnlyTheNewPackage ==
    [][(life'.wbOpened /\ life'.wb # life.wb)
          => life'.wb = WorkbookOpened(WorkbookFresh, life.package, life.packageFile, <<>>).wb]_vars

(***************************************************************************)
(* C29: the listing and the read operation on entry names.                 *)
(***************************************************************************)
\* C29: on an open ZipReader, every path for which hasEntry answers true is
\* one that readEntry locates in the archive, so that readEntry does not fail
\* with "ZIP entry not found"
C29_ListedEntriesAreLocated ==
    zip.m_isOpen =>
        \A path \in ZipProbes, overrun \in ZipOverruns(zipIn) :
            LET has == hasEntry(zip, zipIn, path, overrun)
            IN (~has.thrown /\ has.found) =>
                   (~isPathSuspicious(path) /\ unzLocateFile(zipIn, path) # 0)

(***************************************************************************)
(* C30: the newline option.                                                *)
(***************************************************************************)
\* the text with every LF outside a quoted field, the LF that ends a row,
\* replaced by CR LF; quoted tells whether the text starts inside quotes
RECURSIVE RowTerminatorsToCrLf(_, _)
RowTerminatorsToCrLf(text, quoted) ==
    IF text = <<>> THEN <<>>
    ELSE IF Head(text) = QUOTE
    THEN <<QUOTE>> \o RowTerminatorsToCrLf(Tail(text), ~quoted)
    ELSE IF Head(text) = LF /\ ~quoted
    THEN <<CR, LF>> \o RowTerminatorsToCrLf(Tail(text), quoted)
    ELSE <<Head(text)>> \o RowTerminatorsToCrLf(Tail(text), quoted)

\* the conversion of the same package and sheet with the newline option LF
LfConversion ==
    readSheetToCsv(PackageFile(convIn.package), convIn.sheetSelector,
                   [convIn.options EXCEPT !.newline = "LF"], <<>>)

\* C30: the output with the newline option CRLF is the output with LF in
\* which each LF that ends a row is replaced by CR LF; the bytes of the
\* fields, the LF and CR inside quoted fields among them, are the same
C30_NewlineChangesOnlyRowTerminators ==
    (convOut.op = "convert" /\ ~convOut.thrown /\ convIn.options.newline = "CRLF")
        => /\ ~LfConversion.thrown
           /\ convOut.csv = RowTerminatorsToCrLf(LfConversion.csv, FALSE)

====
